---------------------------- MODULE Spec2Model ----------------------------
(***************************************************************************)
(* Model of the message-delivery core of the log-store client:             *)
(*   - PushBuffer (utils/PushBuffer.ts) with its two Gates,                *)
(*   - OrderingUtil (subscribe/ordering/OrderingUtil.ts) routing messages  *)
(*     to per-key OrderedMsgChain instances,                               *)
(*   - Pipeline (utils/Pipeline.ts) with its lifecycle signals.            *)
(* JavaScript runs one task at a time: every action below is one           *)
(* synchronous run of a handler up to its next suspension point (an await  *)
(* or a yield); continuations of awaits are separate actions.              *)
(***************************************************************************)
EXTENDS Integers, Sequences, FiniteSets, TLC

(***************************************************************************)
(* Bounds of the model.                                                    *)
(***************************************************************************)
\* the bufferSize the PushBuffer is constructed with
BufferSize == 2
\* total number of push() calls explored
MaxPush == 3
\* total number of read outcomes (results of next()) explored
MaxReads == 4

\* sequence numbers of the messages explored: 1 .. MaxSeq
MaxSeq == 3
\* the maxGapRequests the OrderingUtil is constructed with
MaxGapRequests == 1
\* total number of gapHandler invocations explored per chain key
MaxGapCalls == 2

\* number of elements the source of the Pipeline can produce
MaxItems == 2
\* total number of next() calls on the Pipeline explored
MaxNext == 3
\* total number of pipe() / pipeBefore() calls explored
MaxPipeCalls == 2

\* the errors handed to end(err) / endWrite(err) / throw(err); 0 is "no error"
Errors == {1, 2}
\* an Error value pushed into the buffer as an item (isError(v) is v < 0)
ErrItem == 0 - 9

VARIABLES
    \* ---- PushBuffer fields
    buffer,       \* this.buffer: sequence of items (v > 0 a value, v < 0 an Error)
    writeGate,    \* this.writeGate: "open" | "closed" | "locked"
    readGate,     \* this.readGate:  "open" | "closed" | "locked"
    error,        \* this.error: 0 (undefined) or an error
    isIterating,  \* this.isIterating
    gen,          \* position of the iterate() generator:
                  \*   "start" | "yield" | "await" | "done"
    readWaiter,   \* the consumer's readGate.check(): "none" | "wait" | "true" | "false"
    queued,       \* an iterator.return()/throw() request waits for the read in progress
    pushRes,      \* the promise of every push() call so far: "wait" | "true" | "false"
    reads,        \* outcome of every read: v > 0 yielded, 0 done, -e thrown e
    \* ---- history of the PushBuffer (not program state)
    hist,
    \* ---- OrderingUtil fields
    orderedChains,   \* this.orderedChains: key -> OrderedMsgChain
    maxGapRequests,  \* this.maxGapRequests
    \* ---- what the OrderingUtil's collaborators saw, per chain key
    delivered,       \* the sequences inOrderHandler was invoked with, in order
    gapCalls,        \* the ranges gapHandler was invoked with, in order
    skips,           \* number of skip events emitted
    staleAdds,       \* the keys add() was called on with an already delivered sequence
    \* ---- Pipeline
    pipeline,     \* fields of the Pipeline and of its PipelineDefinition:
                  \*   isIterating, isCleaningUp, transforms, transformsBefore
    cleanupCall,  \* this.cleanup = pOnce(cleanup): status of the call, the
                  \*   position of its body, its error argument
    iterator,     \* this.iterator = iteratorFinally(this.iterate(), this.cleanup):
                  \*   position of the generator, its locals, the queued requests
    signals,      \* onStart, onMessage, onError, onBeforeFinally, onFinally:
                  \*   what each was triggered with
    source,       \* the source generator, as the Pipeline sees it
    nextCall,     \* a next() call of the consumer: "idle" | "pending"
    returnCall,   \* the return() call of the consumer: position and result
    throwCall,    \* the throw() call of the consumer: position and result
    results,      \* the result of every settled next(), in order
    pipeLog,      \* every pipe() / pipeBefore() call so far and whether it threw
    \* ---- consumers of a PushBuffer or of a Pipeline
    attempts,     \* every attempt to start iterating so far: the object, the
                  \*   way (for await, collect(), flow()), whether it threw
    reader,       \* the attempt whose consumer made the latest next() call
    receivers,    \* the attempts whose consumers were handed an item
    flow,         \* flow() of the Pipeline: the setImmediate callbacks that
                  \*   are pending and those that ran
    \* ---- a Gate on its own
    gate,         \* its state: "open" | "closed" | "locked"
    checks,       \* every check() call so far: the state of the gate at the
                  \*   call and the promise: "wait" | "true" | "false"
    \* ---- handlers of the OrderingUtil that throw
    handlerThrows,  \* the handler invocations that threw, in order
    errorEvents,    \* the 'error' events the OrderingUtil emitted, in order
    \* ---- the JavaScript job queue
    jobs,         \* the promise jobs (microtasks) waiting to run, in order
    ctx,          \* "user": code of the caller is running (a task, or a job
                  \*   of its own); "jobs": the job queue is being run
    microtasks,   \* number of jobs the caller has queued itself
    \* ---- a function wrapped by pOne
    callStatus,   \* every CallStatus object made so far (the first by
                  \*   pOnce, one more by every reset()): its status, the
                  \*   state of its invocation of fn, the reactions waiting
                  \*   on its promise
    currentCall,  \* currentCall: the index of the current CallStatus object
    wrapperCalls, \* every call of the wrapped function so far: its
                  \*   thisCall, whether it invoked fn, and the invocations
                  \*   of fn that were outstanding when it was made
    received,     \* what the promises returned by calls of a function
                  \*   wrapped by pOnce settled with: the value or the
                  \*   reason of the invocation of fn made by call `by`
    \* ---- a function wrapped by pOrderedResolve
    ordered,      \* every call of the wrapped function so far: the state
                  \*   of the promises made for it (that of fn, d, the
                  \*   result and the promise of the queue, the promise
                  \*   returned) and the reactions waiting on them
    limit,        \* pLimit(1): activeCount and the queue of calls
    settledOrder, \* the calls whose returned promise has settled, in the
                  \*   order they settled
    \* ---- an ObservableEventEmitter and its event gateway
    delegate,     \* this.delegate: the listeners registered, in order: the
                  \*   event, the function given to on() or once(), and
                  \*   whether it is wrapped by once()
    producer,     \* producer of initEventGateway: "undefined" | "running"
    gateway,      \* whether initEventGateway has installed the gateway, and
                  \*   the calls of start() and stop() so far: the last
                  \*   one, and whether they have alternated
    \* ---- pull from a source into the PushBuffer
    puller,       \* the call of pull: which one (the function pull(src,
                  \*   dest) or the method dest.pull(src)), its position,
                  \*   the index of its latest push and whether it left
                  \*   its loop by break
    pullSource    \* src: the items it has yielded, its state ("open" |
                  \*   "done" | "threw" | "returned"), the error it threw
                  \*   and the calls of its return()

pbVars == <<buffer, writeGate, readGate, error, isIterating, gen, readWaiter,
            queued, pushRes, reads, hist>>

ouVars == <<orderedChains, maxGapRequests, delivered, gapCalls, skips, staleAdds>>

plVars == <<pipeline, cleanupCall, iterator, signals, source, nextCall,
            returnCall, throwCall, results, pipeLog>>

itVars == <<attempts, reader, receivers, flow>>

\* the variables of the components added to the three above
gateVars == <<gate, checks>>

errVars == <<handlerThrows, errorEvents>>

jobVars == <<jobs, ctx, microtasks>>

oneVars == <<callStatus, currentCall, wrapperCalls, received>>

ordVars == <<ordered, limit, settledOrder>>

gwVars == <<delegate, producer, gateway>>

pullVars == <<puller, pullSource>>

\* the components other than the consumers
restVars == <<gateVars, errVars, jobVars, oneVars, ordVars, gwVars,
             pullVars>>

extVars == <<itVars, restVars>>

vars == <<pbVars, ouVars, plVars, extVars>>

(***************************************************************************)
(* Gate.  open/close/lock set the state; a locked gate stays locked.       *)
(* check() resolves true as soon as the gate is open, false once it is     *)
(* locked, and is suspended while the gate is closed.                      *)
(***************************************************************************)
GateOpenUnlocks(g) == "open"

GateOpen(g) == IF g = "locked" THEN g ELSE "open"

GateClose(g) == IF g = "locked" THEN g ELSE "closed"

GateLock(g) == "locked"

GateSetOpenState(g, shouldBeOpen) ==
    IF shouldBeOpen THEN GateOpen(g) ELSE GateClose(g)

\* the state of a check() promise made on gate g
GateCheck(g) ==
    CASE g = "open" -> "true"
      [] g = "locked" -> "false"
      [] OTHER -> "wait"

\* a suspended check() on g is resolved by g's transition
GateWake(w, g) == IF w = "wait" THEN GateCheck(g) ELSE w

GateWakeAll(ws, g) == [i \in DOMAIN ws |-> GateWake(ws[i], g)]

(***************************************************************************)
(* PushBuffer, as functions of its state s (a record of the fields).       *)
(***************************************************************************)
PB == [buffer |-> buffer, writeGate |-> writeGate, readGate |-> readGate,
       error |-> error, isIterating |-> isIterating, gen |-> gen,
       readWaiter |-> readWaiter, queued |-> queued, pushRes |-> pushRes,
       reads |-> reads]

SetPB(s) ==
    /\ buffer' = s.buffer
    /\ writeGate' = s.writeGate
    /\ readGate' = s.readGate
    /\ error' = s.error
    /\ isIterating' = s.isIterating
    /\ gen' = s.gen
    /\ readWaiter' = s.readWaiter
    /\ queued' = s.queued
    /\ pushRes' = s.pushRes
    /\ reads' = s.reads

isError(v) == v < 0

IsFullNever(s) == FALSE

IsFullOffByOne(s) == Len(s.buffer) > BufferSize

isFull(s) == Len(s.buffer) >= BufferSize

isDone(s) == s.writeGate = "locked" /\ s.readGate = "locked"

IsWritableReadGateOnly(s) == s.readGate # "locked"

isWritable(s) == s.writeGate # "locked" /\ s.readGate # "locked"

WithWriteGateNoWake(s, g) == [s EXCEPT !.writeGate = g]

\* the write gate set to g, waking the pushes suspended on it
WithWriteGate(s, g) ==
    [s EXCEPT !.writeGate = g, !.pushRes = GateWakeAll(s.pushRes, g)]

WithReadGateNoWake(s, g) == [s EXCEPT !.readGate = g]

\* the read gate set to g, waking the consumer suspended on it
WithReadGate(s, g) ==
    [s EXCEPT !.readGate = g, !.readWaiter = GateWake(s.readWaiter, g)]

UpdateWriteGateCloseOnly(s) ==
    IF isFull(s) THEN WithWriteGate(s, GateClose(s.writeGate)) ELSE s

updateWriteGate(s) ==
    WithWriteGate(s, GateSetOpenState(s.writeGate, ~isFull(s)))

LockWriteOnly(s) == WithWriteGate(s, GateLock(s.writeGate))

lock(s) ==
    WithReadGate(WithWriteGate(s, GateLock(s.writeGate)), GateLock(s.readGate))

EndForgetsError(s, err) == lock(s)

end(s, err) == lock(IF err # 0 THEN [s EXCEPT !.error = err] ELSE s)

EndWriteKeepsWriteGate(s, err) ==
    LET s1 == IF err # 0 /\ s.error = 0 THEN [s EXCEPT !.error = err] ELSE s
    IN  WithReadGate(s1, GateOpen(s1.readGate))

EndWriteLocksBoth(s, err) ==
    lock(IF err # 0 /\ s.error = 0 THEN [s EXCEPT !.error = err] ELSE s)

endWrite(s, err) ==
    LET s1 == IF err # 0 /\ s.error = 0 THEN [s EXCEPT !.error = err] ELSE s
        s2 == WithReadGate(s1, GateOpen(s1.readGate))
    IN  WithWriteGate(s2, GateLock(s2.writeGate))

PushChecksBeforeAppend(s, item) ==
    IF ~isWritable(s)
    THEN [s EXCEPT !.pushRes = Append(@, "false")]
    ELSE LET s1 == updateWriteGate(s)
             s2 == WithReadGate([s1 EXCEPT !.buffer = Append(@, item)],
                                GateOpen(s1.readGate))
         IN  [s2 EXCEPT !.pushRes = Append(@, GateCheck(s2.writeGate))]

push(s, item) ==
    IF ~isWritable(s)
    THEN [s EXCEPT !.pushRes = Append(@, "false")]
    ELSE LET s1 == updateWriteGate([s EXCEPT !.buffer = Append(@, item)])
             s2 == WithReadGate(s1, GateOpen(s1.readGate))
         IN  [s2 EXCEPT !.pushRes = Append(@, GateCheck(s2.writeGate))]

clear(s) == [s EXCEPT !.buffer = <<>>]

\* the finally block of iterate(): the generator is finished with `outcome`
iterateFinally(s, outcome) ==
    [lock([s EXCEPT !.buffer = <<>>]) EXCEPT
        !.gen = "done", !.readWaiter = "none", !.reads = Append(@, outcome)]

\* lines 570-574: the stored error, if any, is thrown once and forgotten
iterateEnd(s) ==
    IF s.error # 0
    THEN iterateFinally([s EXCEPT !.error = 0], 0 - s.error)
    ELSE iterateFinally(s, 0)

ShiftLast(buf) == <<buf[Len(buf)], SubSeq(buf, 1, Len(buf) - 1)>>

\* this.buffer.shift(): the item taken and the buffer left
shift(buf) == <<Head(buf), Tail(buf)>>

\* the body of iterate() from the head of its loops to its next suspension
iterateRun(s) ==
    IF s.readGate = "locked"
    THEN iterateEnd(s)
    ELSE IF Len(s.buffer) > 0
    THEN LET v == shift(s.buffer)[1]
             s1 == updateWriteGate([s EXCEPT !.buffer = shift(s.buffer)[2]])
         IN  IF isError(v)
             THEN iterateFinally(s1, v)
             ELSE [s1 EXCEPT !.gen = "yield", !.readWaiter = "none",
                             !.reads = Append(@, v)]
    ELSE IF s.writeGate = "locked"
    THEN iterateEnd(s)
    ELSE LET s1 == [s EXCEPT !.readGate = GateClose(@)]
         IN  [s1 EXCEPT !.gen = "await", !.readWaiter = GateCheck(s1.readGate)]

\* next(): this.iterator.next() on a generator that is not running
next(s) ==
    CASE s.gen = "done" -> [s EXCEPT !.reads = Append(@, 0)]
      [] s.gen = "start" -> iterateRun([s EXCEPT !.isIterating = TRUE])
      [] OTHER -> iterateRun(s)

\* iterator.return()/throw() on the generator: at its start the body never
\* runs (no finally); at a yield the finally block runs; while it awaits, the
\* request is queued behind the read in progress.
iteratorAbort(s) ==
    CASE s.gen = "start" -> [s EXCEPT !.gen = "done"]
      [] s.gen = "yield" ->
            [lock([s EXCEPT !.buffer = <<>>]) EXCEPT !.gen = "done"]
      [] s.gen = "await" -> [s EXCEPT !.queued = TRUE]
      [] OTHER -> s

\* the continuation of `const ok = await this.readGate.check()`; a queued
\* return()/throw() request is served as soon as the read in progress ends
iterateResume(s) ==
    LET s1 == IF s.readWaiter = "false" THEN iterateEnd(s) ELSE iterateRun(s)
    IN  IF s.queued /\ s1.gen # "await"
        THEN iteratorAbort([s1 EXCEPT !.queued = FALSE])
        ELSE s1

return(s) == iteratorAbort(end(s, 0))

throw(s, err) == iteratorAbort(endWrite(s, err))

(***************************************************************************)
(* History of a PushBuffer run (what was called so far; not program state).*)
(***************************************************************************)
HistInit ==
    [nAcc |-> 0,             \* number of items push() has put into the buffer
     pushedErr |-> FALSE,    \* an Error value was put into the buffer
     usedClear |-> FALSE,    \* clear() was called
     ended |-> FALSE,        \* end() was called (by the caller or by return())
     usedRT |-> FALSE,       \* return() or throw() was called
     endErr |-> 0,           \* the error of the latest end(err) on a live iteration
     ew |-> FALSE,           \* endWrite() was called on a live iteration
     ewLeft |-> <<>>,        \* items buffered at the first endWrite() that the
                             \* consumer has not received yet, in buffer order
     ewErr |-> 0,            \* the error given to the first endWrite()
     ewPush |-> 0,           \* Len(pushRes) at the first endWrite()
     ewK |-> 0,              \* Len(buffer) at the first endWrite()
     fresh |-> FALSE,        \* a push or a read has re-evaluated the write gate
                             \* and clear() has removed no item since
     ewClean |-> TRUE]       \* the buffer held no Error at the first endWrite()
                             \* and clear() was not called since

Last(seq) == seq[Len(seq)]

\* the history after a run of the generator took the buffer from s0 to s1:
\* an item taken re-evaluates the write gate; an outcome equal to the next
\* item expected after endWrite() is ticked off
Received(h, s0, s1) ==
    LET h1 == IF Len(s1.buffer) < Len(s0.buffer) /\ s1.writeGate # "locked"
              THEN [h EXCEPT !.fresh = TRUE]
              ELSE h
    IN  IF /\ Len(s1.reads) > Len(s0.reads)
           /\ h1.ewLeft # <<>>
           /\ Last(s1.reads) = Head(h1.ewLeft)
        THEN [h1 EXCEPT !.ewLeft = Tail(@)]
        ELSE h1

(***************************************************************************)
(* Actions of the PushBuffer.                                              *)
(***************************************************************************)
\* producer: push(item), item a fresh value or an Error
Push ==
    /\ UNCHANGED <<ouVars, plVars, extVars>>
    /\ Len(pushRes) < MaxPush
    /\ \E item \in {hist.nAcc + 1, ErrItem} :
        /\ SetPB(push(PB, item))
        /\ hist' = IF isWritable(PB)
                   THEN [hist EXCEPT !.nAcc = @ + 1, !.fresh = TRUE,
                                     !.pushedErr = @ \/ isError(item)]
                   ELSE hist

\* consumer: next(), with no read of its own in progress
Read ==
    /\ UNCHANGED <<ouVars, plVars, extVars>>
    /\ gen # "await"
    /\ Len(reads) < MaxReads
    /\ SetPB(next(PB))
    /\ hist' = Received(hist, PB, next(PB))

\* consumer: the read suspended on the read gate continues
ReadResume ==
    /\ UNCHANGED <<ouVars, plVars, extVars>>
    /\ gen = "await"
    /\ readWaiter \in {"true", "false"}
    /\ SetPB(iterateResume(PB))
    /\ hist' = Received(hist, PB, iterateResume(PB))

End ==
    /\ UNCHANGED <<ouVars, plVars, extVars>>
    /\ \E err \in Errors \cup {0} :
        /\ SetPB(end(PB, err))
        /\ hist' = [hist EXCEPT
              !.ended = TRUE,
              !.endErr = IF err # 0 /\ gen # "done" THEN err ELSE @]

EndWrite ==
    /\ UNCHANGED <<ouVars, plVars, extVars>>
    /\ \E err \in Errors \cup {0} :
        /\ SetPB(endWrite(PB, err))
        /\ hist' = IF ~hist.ew /\ gen # "done" /\ isWritable(PB)
                   THEN [hist EXCEPT
                            !.ew = TRUE, !.ewLeft = buffer, !.ewErr = err,
                            !.ewPush = Len(pushRes), !.ewK = Len(buffer),
                            !.ewClean = \A i \in DOMAIN buffer : ~isError(buffer[i])]
                   ELSE hist

Clear ==
    /\ UNCHANGED <<ouVars, plVars, extVars>>
    /\ SetPB(clear(PB))
    /\ hist' = [hist EXCEPT !.usedClear = TRUE, !.ewClean = @ /\ ~hist.ew,
                             !.fresh = @ /\ buffer = <<>>]

Return ==
    /\ UNCHANGED <<ouVars, plVars, extVars>>
    /\ SetPB(return(PB))
    /\ hist' = [hist EXCEPT !.usedRT = TRUE, !.ended = TRUE]

Throw ==
    /\ UNCHANGED <<ouVars, plVars, extVars>>
    /\ \E err \in Errors :
        /\ SetPB(throw(PB, err))
        /\ hist' = [hist EXCEPT !.usedRT = TRUE]

\* producer that awaits the result of each push() before the next push:
\* push(item) with no push of its own suspended
PushAwaited ==
    /\ \A i \in DOMAIN pushRes : pushRes[i] # "wait"
    /\ Push

\* the PushBuffer with a producer that awaits each push
AwaitNext ==
    \/ PushAwaited
    \/ Read
    \/ ReadResume
    \/ End
    \/ EndWrite
    \/ Clear
    \/ Return
    \/ Throw

PBNext ==
    \/ Push
    \/ Read
    \/ ReadResume
    \/ End
    \/ EndWrite
    \/ Clear
    \/ Return
    \/ Throw

(***************************************************************************)
(* OrderedMsgChain: the ordering state of one chain key.  A chain is       *)
(* handled together with what its handlers were called with:               *)
(*   w = [chain, delivered, gapCalls, skips].                              *)
(* lastDelivered 0 is "nothing delivered yet".                             *)
(***************************************************************************)
PublisherIds == {"a", "b"}

MsgChainIds == {"x"}

Seqs == 1 .. MaxSeq

\* publisher "a" sends the whole range of sequences, in any order and with
\* repeats; publisher "b" sends a short stream of two
Messages ==
    {m \in [publisherId : PublisherIds, msgChainId : MsgChainIds, seq : Seqs] :
        m.publisherId = "a" \/ m.seq <= 2}

NoGap == [active |-> FALSE, from |-> 0, to |-> 0, attempts |-> 0]

ChainNew(maxGap) ==
    [lastDelivered |-> 0, pending |-> {}, gap |-> NoGap, maxGapRequests |-> maxGap]

Min(S) == CHOOSE x \in S : \A y \in S : x <= y

\* the message is handed to inOrderHandler
ChainDeliver(w, q) ==
    [w EXCEPT !.chain.lastDelivered = q, !.delivered = Append(@, q)]

\* the message is known out of band: lastDelivered moves, no handler call
ChainAdvance(w, q) == [w EXCEPT !.chain.lastDelivered = q]

RECURSIVE ChainDrain(_)
\* deliver the buffered messages that are now contiguous; drop stale ones
ChainDrain(w) ==
    LET last == w.chain.lastDelivered
        live == {x \in w.chain.pending : x > last}
    IN  IF last + 1 \in live
        THEN ChainDrain(ChainDeliver(
                 [w EXCEPT !.chain.pending = live \ {last + 1}], last + 1))
        ELSE [w EXCEPT !.chain.pending = live]

\* an active gap that is filled is dropped, and one that a buffered message
\* fills in part ends just before the first buffered message; buffered
\* messages with no gap tracked get one, from the expected next to just
\* before the first buffered
ChainCheckGap(w) ==
    LET c == w.chain
        g == IF c.gap.active /\ c.lastDelivered >= c.gap.to THEN NoGap ELSE c.gap
    IN  IF ~g.active /\ c.pending # {}
        THEN [w EXCEPT !.chain.gap =
                 [active |-> TRUE, from |-> c.lastDelivered + 1,
                  to |-> Min(c.pending) - 1, attempts |-> 0]]
        ELSE IF g.active /\ c.pending # {} /\ Min(c.pending) - 1 < g.to
        THEN [w EXCEPT !.chain.gap = [g EXCEPT !.to = Min(c.pending) - 1]]
        ELSE [w EXCEPT !.chain.gap = g]

ChainIsStale(c, q) == c.lastDelivered # 0 /\ q <= c.lastDelivered

ChainIsNext(c, q) == c.lastDelivered = 0 \/ q = c.lastDelivered + 1

ChainAdd(w, q) ==
    IF ChainIsStale(w.chain, q)
    THEN w
    ELSE IF ChainIsNext(w.chain, q)
    THEN ChainCheckGap(ChainDrain(ChainDeliver(w, q)))
    ELSE ChainCheckGap([w EXCEPT !.chain.pending = @ \cup {q}])

ChainMarkMessageExplicitly(w, q) ==
    IF ChainIsStale(w.chain, q)
    THEN w
    ELSE IF ChainIsNext(w.chain, q)
    THEN ChainCheckGap(ChainDrain(ChainAdvance(w, q)))
    ELSE ChainCheckGap([w EXCEPT !.chain.pending = @ \cup {q}])

\* a skip that moves lastDelivered and leaves the buffered messages alone
ChainGapTimerSkipsWithoutDrain(w) ==
    LET c == w.chain
    IN  IF c.gap.attempts < c.maxGapRequests
        THEN [w EXCEPT !.chain.gap.attempts = @ + 1,
                       !.gapCalls = Append(@, <<c.gap.from, c.gap.to>>)]
        ELSE [w EXCEPT !.skips = @ + 1,
                       !.chain.lastDelivered = c.gap.to,
                       !.chain.gap = NoGap]

\* the gap's deadline expired
ChainGapTimer(w) ==
    LET c == w.chain
    IN  IF c.gap.attempts < c.maxGapRequests
        THEN [w EXCEPT !.chain.gap.attempts = @ + 1,
                       !.gapCalls = Append(@, <<c.gap.from, c.gap.to>>)]
        ELSE ChainCheckGap(ChainDrain(
                 [w EXCEPT !.skips = @ + 1,
                           !.chain.lastDelivered = c.gap.to,
                           !.chain.gap = NoGap]))

ChainClearGap(c) == [c EXCEPT !.gap = NoGap]

ChainDisable(c) == [c EXCEPT !.maxGapRequests = 0, !.gap = NoGap]

ChainIsEmpty(c) == c.pending = {} /\ ~c.gap.active

(***************************************************************************)
(* OrderingUtil, as functions of its state u (a record of its fields and   *)
(* of what its handlers were called with).                                 *)
(***************************************************************************)
OU == [orderedChains |-> orderedChains, maxGapRequests |-> maxGapRequests,
       delivered |-> delivered, gapCalls |-> gapCalls, skips |-> skips]

SetOU(u) ==
    /\ orderedChains' = u.orderedChains
    /\ maxGapRequests' = u.maxGapRequests
    /\ delivered' = u.delivered
    /\ gapCalls' = u.gapCalls
    /\ skips' = u.skips

\* const key = publisherId + msgChainId
ChainKey(publisherId, msgChainId) == publisherId \o msgChainId

Keys == {ChainKey(p, c) : p \in PublisherIds, c \in MsgChainIds}

GetChainSingle(u, key) ==
    IF key \notin DOMAIN u.orderedChains
    THEN [u EXCEPT !.orderedChains = [k \in {key} |-> ChainNew(u.maxGapRequests)]]
    ELSE u

GetChainIgnoresDisable(u, key) ==
    IF key \notin DOMAIN u.orderedChains
    THEN [u EXCEPT !.orderedChains =
            [k \in DOMAIN @ \cup {key} |->
                IF k = key THEN ChainNew(MaxGapRequests) ELSE @[k]]]
    ELSE u

GetChainAlwaysNew(u, key) ==
    [u EXCEPT !.orderedChains =
        [k \in DOMAIN @ \cup {key} |->
            IF k = key THEN ChainNew(u.maxGapRequests) ELSE @[k]]]

\* getChain: the chain of the key, created on first use
getChain(u, key) ==
    IF key \notin DOMAIN u.orderedChains
    THEN [u EXCEPT !.orderedChains =
            [k \in DOMAIN @ \cup {key} |->
                IF k = key THEN ChainNew(u.maxGapRequests) ELSE @[k]]]
    ELSE u

\* the chain of `key` with its handlers' logs, and back
World(u, key) ==
    [chain |-> u.orderedChains[key], delivered |-> u.delivered[key],
     gapCalls |-> u.gapCalls[key], skips |-> u.skips[key]]

WithWorld(u, key, w) ==
    [u EXCEPT !.orderedChains[key] = w.chain, !.delivered[key] = w.delivered,
              !.gapCalls[key] = w.gapCalls, !.skips[key] = w.skips]

AddMarksExplicitly(u, m) ==
    LET key == ChainKey(m.publisherId, m.msgChainId)
        u1 == getChain(u, key)
    IN  WithWorld(u1, key, ChainMarkMessageExplicitly(World(u1, key), m.seq))

add(u, m) ==
    LET key == ChainKey(m.publisherId, m.msgChainId)
        u1 == getChain(u, key)
    IN  WithWorld(u1, key, ChainAdd(World(u1, key), m.seq))

markMessageExplicitly(u, m) ==
    LET key == ChainKey(m.publisherId, m.msgChainId)
        u1 == getChain(u, key)
    IN  WithWorld(u1, key, ChainMarkMessageExplicitly(World(u1, key), m.seq))

IsEmptySome(u) ==
    \E key \in DOMAIN u.orderedChains : ChainIsEmpty(u.orderedChains[key])

isEmpty(u) ==
    \A key \in DOMAIN u.orderedChains : ChainIsEmpty(u.orderedChains[key])

\* Object.values(this.orderedChains).forEach((chain) => chain.clearGap())
clearGaps(u) ==
    [u EXCEPT !.orderedChains = [k \in DOMAIN @ |-> ChainClearGap(@[k])]]

DisableChainsOnly(u) ==
    [u EXCEPT !.orderedChains = [k \in DOMAIN @ |-> ChainDisable(@[k])]]

DisableFieldOnly(u) == [u EXCEPT !.maxGapRequests = 0]

disable(u) ==
    [u EXCEPT !.maxGapRequests = 0,
              !.orderedChains = [k \in DOMAIN @ |-> ChainDisable(@[k])]]

(***************************************************************************)
(* Actions of the OrderingUtil.                                            *)
(***************************************************************************)
\* the message is already delivered on the chain its key has
IsStaleFor(u, m) ==
    LET key == ChainKey(m.publisherId, m.msgChainId)
    IN  /\ key \in DOMAIN u.orderedChains
        /\ ChainIsStale(u.orderedChains[key], m.seq)

\* transport: message m arrives (in any order, possibly again); the guard only
\* bounds the handler log
AddMessage(m) ==
    /\ UNCHANGED <<pbVars, plVars, extVars>>
    /\ Len(delivered[ChainKey(m.publisherId, m.msgChainId)]) <= MaxSeq
    /\ SetOU(add(OU, m))
    /\ staleAdds' = IF IsStaleFor(OU, m)
                    THEN staleAdds \cup {ChainKey(m.publisherId, m.msgChainId)}
                    ELSE staleAdds

Add == \E m \in Messages : AddMessage(m)

\* a resend result is marked as known
MarkMessageExplicitly ==
    /\ UNCHANGED <<pbVars, plVars, extVars>>
    /\ \E m \in Messages :
        /\ SetOU(markMessageExplicitly(OU, m))
        /\ UNCHANGED staleAdds

\* the gap timer of one chain fires; the guard only bounds the log of
\* gapHandler calls
GapTimerOf(key) ==
    /\ UNCHANGED <<pbVars, plVars, extVars>>
    /\ orderedChains[key].gap.active
    /\ orderedChains[key].gap.attempts < orderedChains[key].maxGapRequests
           => Len(gapCalls[key]) < MaxGapCalls
    /\ SetOU(WithWorld(OU, key, ChainGapTimer(World(OU, key))))
    /\ UNCHANGED staleAdds

GapTimer == \E key \in DOMAIN orderedChains : GapTimerOf(key)

ClearGaps ==
    /\ UNCHANGED <<pbVars, plVars, extVars>>
    /\ SetOU(clearGaps(OU))
    /\ UNCHANGED staleAdds

Disable ==
    /\ UNCHANGED <<pbVars, plVars, extVars>>
    /\ SetOU(disable(OU))
    /\ UNCHANGED staleAdds

OUNext ==
    \/ Add
    \/ MarkMessageExplicitly
    \/ GapTimer
    \/ ClearGaps
    \/ Disable

(***************************************************************************)
(* Specifications: a new PushBuffer, a new OrderingUtil and a new         *)
(* Pipeline, each run alone.                                               *)
(***************************************************************************)
(***************************************************************************)
(* Pipeline.  Signal, ErrorSignal and iteratorFinally are used by the      *)
(* Pipeline but defined elsewhere; they are modelled by what they are said *)
(* to do:                                                                  *)
(*   - a once-signal fires its listeners at the first trigger only,        *)
(*   - onMessage / onError fire at every trigger; the trigger of onError   *)
(*     either returns (a listener handled the error) or rethrows it,       *)
(*   - iteratorFinally(it, fn) calls fn(error) when it ends: by completion,*)
(*     by an error, by return() or throw(), started or not.                *)
(* The state of one Pipeline is handled as a record s of its variables.    *)
(***************************************************************************)
NoError == "none"

\* thrown by the source, by a stage, and handed to throw(err)
SourceError == "SourceError"

StageError == "StageError"

ThrownError == "ThrownError"

\* the transforms handed to pipe() / pipeBefore(): n is the number of the
\* call; every stage adds n to the trace of the elements it lets through;
\* "drop" removes the elements of odd value, "fail" throws StageError
StageKinds == {"tag", "drop", "fail"}

NoElement == [v |-> 0, trace |-> <<>>]

\* the results of next() / return() / throw()
Value(el) == [kind |-> "value", el |-> el, err |-> NoError]

Done == [kind |-> "done", el |-> NoElement, err |-> NoError]

Rejected(err) == [kind |-> "error", el |-> NoElement, err |-> err]

NoResult == [kind |-> "none", el |-> NoElement, err |-> NoError]

ApplyStage(stage, el) ==
    IF stage.kind = "fail"
    THEN [kind |-> "throw", el |-> el]
    ELSE IF stage.kind = "drop" /\ el.v % 2 = 1
    THEN [kind |-> "drop", el |-> el]
    ELSE [kind |-> "elem", el |-> [el EXCEPT !.trace = Append(@, stage.n)]]

RECURSIVE ApplyChain(_, _)
\* transforms.reduce((prev, transform) => transform(prev), source): an
\* element of the source goes through the transforms in list order
ApplyChain(chain, el) ==
    IF chain = <<>>
    THEN [kind |-> "elem", el |-> el]
    ELSE LET r == ApplyStage(Head(chain), el)
         IN  IF r.kind = "elem" THEN ApplyChain(Tail(chain), r.el) ELSE r

SignalOnce == [triggerCount |-> 0, fired |-> <<>>]

\* trigger of a once-signal: only the first trigger reaches the listeners
TriggerOnce(sig, arg) ==
    [triggerCount |-> sig.triggerCount + 1,
     fired |-> IF sig.fired = <<>> THEN <<arg>> ELSE sig.fired]

PL == [pipeline |-> pipeline, cleanupCall |-> cleanupCall, iterator |-> iterator,
       signals |-> signals, source |-> source, nextCall |-> nextCall,
       returnCall |-> returnCall, throwCall |-> throwCall, results |-> results]

SetPL(s) ==
    /\ pipeline' = s.pipeline
    /\ cleanupCall' = s.cleanupCall
    /\ iterator' = s.iterator
    /\ signals' = s.signals
    /\ source' = s.source
    /\ nextCall' = s.nextCall
    /\ returnCall' = s.returnCall
    /\ throwCall' = s.throwCall
    /\ results' = s.results

PipeUnchecked(s, fn) ==
    [threw |-> FALSE, s |-> [s EXCEPT !.pipeline.transforms = Append(@, fn)]]

\* Pipeline.pipe -> PipelineDefinition.pipe
pipe(s, fn) ==
    IF s.pipeline.isIterating
    THEN [threw |-> TRUE, s |-> s]
    ELSE [threw |-> FALSE, s |-> [s EXCEPT !.pipeline.transforms = Append(@, fn)]]

\* Pipeline.pipeBefore -> PipelineDefinition.pipeBefore
pipeBefore(s, fn) ==
    IF s.pipeline.isIterating
    THEN [threw |-> TRUE, s |-> s]
    ELSE [threw |-> FALSE,
          s |-> [s EXCEPT !.pipeline.transformsBefore = Append(@, fn)]]

GetTransformsPipeFirst(s) == s.pipeline.transforms \o s.pipeline.transformsBefore

getTransforms(s) == s.pipeline.transformsBefore \o s.pipeline.transforms

clearTransforms(s) ==
    [s EXCEPT !.pipeline.transforms = <<>>, !.pipeline.transformsBefore = <<>>]

\* this.definition.source.return(undefined)
sourceReturn(s) ==
    [s EXCEPT !.source.closed = TRUE, !.source.returnCalls = @ + 1]

\* this.definition.source.throw(err).catch(() => {})
sourceThrow(s) ==
    [s EXCEPT !.source.closed = TRUE, !.source.throwCalls = @ + 1]

\* cleanup(error), from the call to its first await
cleanupStart(s, err) ==
    LET s1 == [s EXCEPT !.pipeline.isCleaningUp = TRUE,
                        !.cleanupCall = [status |-> "pending", pc |-> "onError",
                                         error |-> err, threw |-> FALSE]]
    IN  IF err # NoError
        THEN [s1 EXCEPT !.signals.onError = Append(@, err)]
        ELSE [sourceReturn(s1) EXCEPT !.cleanupCall.pc = "sourceReturn"]

CleanupFinallyBeforeSourceReturn(s, rethrown) ==
    LET pc == s.cleanupCall.pc
    IN  IF pc = "onError"
        THEN [s EXCEPT !.cleanupCall.pc = "sourceReturn",
                       !.cleanupCall.threw = rethrown,
                       !.signals.onBeforeFinally = TriggerOnce(@, NoError)]
        ELSE IF pc = "sourceReturn"
        THEN [s EXCEPT !.cleanupCall.pc = "onBeforeFinally",
                       !.signals.onFinally = TriggerOnce(@, s.cleanupCall.error)]
        ELSE IF pc = "onBeforeFinally"
        THEN [sourceReturn(s) EXCEPT !.cleanupCall.pc = "onFinally"]
        ELSE [clearTransforms(s) EXCEPT
                 !.cleanupCall.pc = "done",
                 !.cleanupCall.status =
                     IF s.cleanupCall.threw THEN "rejected" ELSE "fulfilled"]

\* cleanup(error), from one await to the next; rethrown: the trigger of
\* onError threw.  cleanupCall.pc names the await the body is suspended at.
cleanupResume(s, rethrown) ==
    LET pc == s.cleanupCall.pc
    IN  IF pc = "onError"
        \* finally { await this.definition.source.return(undefined) }
        THEN [sourceReturn(s) EXCEPT !.cleanupCall.pc = "sourceReturn",
                                     !.cleanupCall.threw = rethrown]
        ELSE IF pc = "sourceReturn"
        \* finally { await this.onBeforeFinally.trigger()
        THEN [s EXCEPT !.cleanupCall.pc = "onBeforeFinally",
                       !.signals.onBeforeFinally = TriggerOnce(@, NoError)]
        ELSE IF pc = "onBeforeFinally"
        \* await this.onFinally.trigger(error)
        THEN [s EXCEPT !.cleanupCall.pc = "onFinally",
                       !.signals.onFinally = TriggerOnce(@, s.cleanupCall.error)]
        \* this.definition.clearTransforms() }, and the promise settles
        ELSE [clearTransforms(s) EXCEPT
                 !.cleanupCall.pc = "done",
                 !.cleanupCall.status =
                     IF s.cleanupCall.threw THEN "rejected" ELSE "fulfilled"]

\* pOnce(fn): only the first call runs fn, the others get its promise
pOnce(s, err) ==
    IF s.cleanupCall.status = "init" THEN cleanupStart(s, err) ELSE s

NoOnFinally(s, err) == s

\* constructor: this.cleanup = pOnce(this.cleanup.bind(this));
\* this.iterator = iteratorFinally(this.iterate(), this.cleanup):
\* what the iterator calls when it ends
iteratorOnFinally(s, err) == pOnce(s, err)

\* the result of the cleanup call once it is settled (or was never made)
CleanupSettled(s) == s.cleanupCall.status # "pending"

\* the head of the iterator's requests settles with `outcome`
Settle(s, outcome) ==
    LET kind == Head(s.iterator.queue)
        s1 == [s EXCEPT !.iterator.queue = Tail(@)]
    IN  IF kind = "next"
        THEN [s1 EXCEPT !.results = Append(@, outcome), !.nextCall = "idle"]
        ELSE IF kind = "return"
        THEN [s1 EXCEPT !.returnCall = [pc |-> "done", result |-> outcome]]
        ELSE [s1 EXCEPT !.throwCall = [pc |-> "done", result |-> outcome]]

HandleErrorSilent(s, err) ==
    [s EXCEPT !.pipeline.isCleaningUp = TRUE,
              !.iterator.pc = "handleError",
              !.iterator.ending = "catch",
              !.iterator.err = err]

\* catch (err) { this.isCleaningUp = true; await this.handleError(err) }
handleError(s, err) ==
    [s EXCEPT !.pipeline.isCleaningUp = TRUE,
              !.signals.onError = Append(@, err),
              !.iterator.pc = "handleError",
              !.iterator.ending = "catch",
              !.iterator.err = err]

\* the iterator ended: iteratorFinally awaits its finally function
iteratorFinally(s) ==
    LET e == IF s.iterator.ending = "throw" THEN s.iterator.err ELSE NoError
    IN  [iteratorOnFinally(s, e) EXCEPT !.iterator.pc = "cleanup"]

IterateFinallySkipsTrigger(s) ==
    iteratorFinally([s EXCEPT !.pipeline.isCleaningUp = TRUE])

\* finally { this.isCleaningUp = true;
\*           if (!this.onBeforeFinally.triggerCount) await ...trigger() }
iterateFinallyBlock(s) ==
    LET s1 == [s EXCEPT !.pipeline.isCleaningUp = TRUE]
    IN  IF s1.signals.onBeforeFinally.triggerCount = 0
        THEN [s1 EXCEPT !.signals.onBeforeFinally = TriggerOnce(@, NoError),
                        !.iterator.pc = "beforeFinally"]
        ELSE iteratorFinally(s1)

RECURSIVE Serve(_)
\* the iterator takes the requests it can take now: it is suspended at its
\* start or at a yield, or it is finished
Serve(s) ==
    IF s.iterator.queue = <<>>
    THEN s
    ELSE LET kind == Head(s.iterator.queue)
             pc == s.iterator.pc
         IN  IF pc = "done"
             THEN Serve(Settle(s, IF kind = "throw" THEN Rejected(ThrownError)
                                                     ELSE Done))
             ELSE IF pc = "start" /\ kind = "next"
             \* iterate(): this.isIterating = true; await this.onStart.trigger()
             THEN [s EXCEPT !.pipeline.isIterating = TRUE,
                            !.signals.onStart = TriggerOnce(@, NoError),
                            !.iterator.pc = "onStart"]
             ELSE IF pc = "start" /\ kind = "return"
             \* never started: the body does not run, the finally function does
             THEN Serve([iteratorOnFinally(s, NoError) EXCEPT
                            !.iterator.pc = "done",
                            !.iterator.queue = Tail(@),
                            !.returnCall.pc = "cleanup"])
             ELSE IF pc = "start" /\ kind = "throw"
             THEN Serve([iteratorOnFinally(s, ThrownError) EXCEPT
                            !.iterator.pc = "done",
                            !.iterator.queue = Tail(@),
                            !.throwCall.pc = "cleanup"])
             ELSE IF pc = "yield" /\ kind = "next"
             \* for await: the next element is asked for
             THEN [s EXCEPT !.iterator.pc = "pull"]
             ELSE IF pc = "yield" /\ kind = "return"
             \* for await leaves the loop: it closes the composed generator
             THEN [s EXCEPT !.iterator.pc = "close",
                            !.iterator.ending = "complete",
                            !.source.closed = TRUE]
             ELSE IF pc = "yield" /\ kind = "throw"
             THEN [s EXCEPT !.iterator.pc = "close",
                            !.iterator.ending = "catch",
                            !.iterator.err = ThrownError,
                            !.source.closed = TRUE]
             ELSE s

YieldWithoutOnMessage(s, msg) ==
    [s EXCEPT !.iterator.msg = msg, !.iterator.pc = "onMessage"]

\* for await (const msg of pipeline) { await this.onMessage.trigger(msg);
\* yield msg }: the trigger, up to its await
onMessageBeforeYield(s, msg) ==
    [s EXCEPT !.signals.onMessage = Append(@, msg),
              !.iterator.msg = msg,
              !.iterator.pc = "onMessage"]

\* iterate(), from one await or yield to the next.  c is what the awaited
\* party did: the source produced an item, completed or threw; the trigger of
\* onError returned or rethrew.
iterate(s, c) ==
    LET pc == s.iterator.pc
    IN  IF pc = "onStart"
        \* const transforms = this.definition.getTransforms(); reduce; for await
        THEN [s EXCEPT !.iterator.chain = getTransforms(s), !.iterator.pc = "pull"]
        ELSE IF pc = "pull"
        THEN IF c = "done"
             THEN iterateFinallyBlock([s EXCEPT !.source.closed = TRUE,
                                                !.iterator.ending = "complete"])
             ELSE IF c = "error"
             THEN handleError([s EXCEPT !.source.closed = TRUE], SourceError)
             ELSE LET el == [v |-> s.source.sent + 1, trace |-> <<>>]
                      r == ApplyChain(s.iterator.chain, el)
                      s1 == [s EXCEPT !.source.sent = @ + 1]
                  IN  IF r.kind = "elem"
                      \* await this.onMessage.trigger(msg)
                      THEN onMessageBeforeYield(s1, r.el)
                      ELSE IF r.kind = "drop"
                      THEN s1
                      ELSE handleError([s1 EXCEPT !.source.closed = TRUE],
                                       StageError)
        ELSE IF pc = "onMessage"
        \* yield msg
        THEN Serve(Settle([s EXCEPT !.iterator.pc = "yield"], Value(s.iterator.msg)))
        ELSE IF pc = "close"
        THEN IF s.iterator.ending = "catch"
             THEN handleError(s, s.iterator.err)
             ELSE iterateFinallyBlock(s)
        ELSE IF pc = "handleError"
        THEN iterateFinallyBlock(
                 [s EXCEPT !.iterator.ending =
                               IF c = "rethrows" THEN "throw" ELSE "complete"])
        ELSE IF pc = "beforeFinally"
        THEN iteratorFinally(s)
        \* pc = "cleanup": the finally function is settled, the iterator ends
        ELSE Serve(Settle([s EXCEPT !.iterator.pc = "done"],
                 IF s.cleanupCall.status = "rejected"
                 THEN Rejected(s.cleanupCall.error)
                 ELSE IF s.iterator.ending = "throw"
                 THEN Rejected(s.iterator.err)
                 ELSE Done))

\* what the party awaited by iterate() can do
IterateChoices(s) ==
    IF s.iterator.pc = "pull"
    THEN IF s.source.closed
         THEN {"done"}
         ELSE {"done", "error"} \cup
              (IF s.source.sent < MaxItems THEN {"item"} ELSE {})
    ELSE IF s.iterator.pc = "handleError"
    THEN {"returns", "rethrows"}
    ELSE {"resumes"}

\* async next() { return this.iterator.next() }
pipeline_next(s) ==
    Serve([s EXCEPT !.iterator.queue = Append(@, "next"), !.nextCall = "pending"])

ReturnSkipsIterator(s) ==
    IF s.pipeline.isCleaningUp
    THEN [s EXCEPT !.returnCall = [pc |-> "done", result |-> Done]]
    ELSE [sourceReturn(s) EXCEPT !.returnCall = [pc |-> "done", result |-> Done]]

\* return(v), from the call to its first await
pipeline_return(s) ==
    IF s.pipeline.isCleaningUp
    THEN [s EXCEPT !.returnCall = [pc |-> "done", result |-> Done]]
    ELSE IF s.signals.onBeforeFinally.triggerCount = 0
    THEN [s EXCEPT !.signals.onBeforeFinally = TriggerOnce(@, NoError),
                   !.returnCall.pc = "onBeforeFinally"]
    ELSE [sourceReturn(s) EXCEPT !.returnCall.pc = "sourceReturn"]

\* return(v), from one await to the next
returnResume(s) ==
    LET pc == s.returnCall.pc
    IN  IF pc = "onBeforeFinally"
        THEN [sourceReturn(s) EXCEPT !.returnCall.pc = "sourceReturn"]
        ELSE IF pc = "sourceReturn"
        \* return this.iterator.return(v)
        THEN Serve([s EXCEPT !.iterator.queue = Append(@, "return"),
                             !.returnCall.pc = "iterator"])
        \* pc = "cleanup": a never started iterator, its finally function settled
        ELSE [s EXCEPT !.returnCall =
                 [pc |-> "done",
                  result |-> IF s.cleanupCall.status = "rejected"
                             THEN Rejected(s.cleanupCall.error) ELSE Done]]

\* throw(err), from the call to its first await
pipeline_throw(s) ==
    IF s.pipeline.isCleaningUp
    THEN [s EXCEPT !.throwCall = [pc |-> "done", result |-> Rejected(ThrownError)]]
    ELSE IF s.signals.onBeforeFinally.triggerCount = 0
    THEN [s EXCEPT !.signals.onBeforeFinally = TriggerOnce(@, NoError),
                   !.throwCall.pc = "onBeforeFinally"]
    ELSE [sourceThrow(s) EXCEPT !.throwCall.pc = "sourceThrow"]

\* throw(err), from one await to the next
throwResume(s) ==
    LET pc == s.throwCall.pc
    IN  IF pc = "onBeforeFinally"
        THEN [sourceThrow(s) EXCEPT !.throwCall.pc = "sourceThrow"]
        ELSE IF pc = "sourceThrow"
        \* return this.iterator.throw(err)
        THEN Serve([s EXCEPT !.iterator.queue = Append(@, "throw"),
                             !.throwCall.pc = "iterator"])
        ELSE [s EXCEPT !.throwCall =
                 [pc |-> "done", result |-> Rejected(ThrownError)]]

(***************************************************************************)
(* Actions of the Pipeline: the calls of its owner and consumer, and the   *)
(* continuations of its awaits.                                            *)
(***************************************************************************)
PipeCall(op, kind) ==
    LET fn == [n |-> Len(pipeLog) + 1, kind |-> kind]
        r == IF op = "pipe" THEN pipe(PL, fn) ELSE pipeBefore(PL, fn)
    IN  /\ Len(pipeLog) < MaxPipeCalls
        /\ SetPL(r.s)
        /\ pipeLog' = Append(pipeLog, [op |-> op, fn |-> fn, threw |-> r.threw])
        /\ UNCHANGED <<pbVars, ouVars, extVars>>

\* the transforms handed over; which one does not matter to a call that is
\* made while iterating
FnKinds == IF pipeline.isIterating THEN {"tag"} ELSE StageKinds

Pipe == \E kind \in FnKinds : PipeCall("pipe", kind)

PipeBefore == \E kind \in FnKinds : PipeCall("pipeBefore", kind)

PipelineNext ==
    /\ nextCall = "idle"
    /\ Len(results) < MaxNext
    /\ SetPL(pipeline_next(PL))
    /\ UNCHANGED <<pbVars, ouVars, extVars, pipeLog>>

PipelineReturn ==
    /\ returnCall.pc = "idle"
    /\ SetPL(pipeline_return(PL))
    /\ UNCHANGED <<pbVars, ouVars, extVars, pipeLog>>

PipelineThrow ==
    /\ throwCall.pc = "idle"
    /\ SetPL(pipeline_throw(PL))
    /\ UNCHANGED <<pbVars, ouVars, extVars, pipeLog>>

Iterate ==
    /\ iterator.pc \in {"onStart", "pull", "onMessage", "close", "handleError",
                        "beforeFinally", "cleanup"}
    /\ iterator.pc = "cleanup" => CleanupSettled(PL)
    /\ \E c \in IterateChoices(PL) : SetPL(iterate(PL, c))
    /\ UNCHANGED <<pbVars, ouVars, extVars, pipeLog>>

Cleanup ==
    /\ cleanupCall.status = "pending"
    /\ \E rethrown \in (IF cleanupCall.pc = "onError" THEN BOOLEAN ELSE {FALSE}) :
           SetPL(cleanupResume(PL, rethrown))
    /\ UNCHANGED <<pbVars, ouVars, extVars, pipeLog>>

ReturnResume ==
    /\ returnCall.pc \in {"onBeforeFinally", "sourceReturn", "cleanup"}
    /\ returnCall.pc = "cleanup" => CleanupSettled(PL)
    /\ SetPL(returnResume(PL))
    /\ UNCHANGED <<pbVars, ouVars, extVars, pipeLog>>

ThrowResume ==
    /\ throwCall.pc \in {"onBeforeFinally", "sourceThrow", "cleanup"}
    /\ throwCall.pc = "cleanup" => CleanupSettled(PL)
    /\ SetPL(throwResume(PL))
    /\ UNCHANGED <<pbVars, ouVars, extVars, pipeLog>>

PLNext ==
    \/ Pipe
    \/ PipeBefore
    \/ PipelineNext
    \/ PipelineReturn
    \/ PipelineThrow
    \/ Iterate
    \/ Cleanup
    \/ ReturnResume
    \/ ThrowResume

(***************************************************************************)
(* Consumers.  A consumer starts iterating with `for await (x of obj)` -   *)
(* obj[Symbol.asyncIterator]() and the first next() in one synchronous run *)
(* - or with collect(); it then asks for one element after the other.  A   *)
(* behaviour exercises either the PushBuffer or the Pipeline: attempts[1]  *)
(* tells which.                                                            *)
(***************************************************************************)
\* total number of attempts to start iterating explored
MaxAttempts == 3
\* total number of flow() calls explored
MaxFlow == 2

Exercised ==
    IF flow.pending + flow.ran > 0
    THEN "pipeline"
    ELSE IF attempts = <<>> THEN "none" ELSE attempts[1].on

AsyncIteratorNeverThrows(s) == FALSE

\* PushBuffer [Symbol.asyncIterator](): if (this.isIterating) throw
\* 'already iterating'; return this.  TRUE when it throws.
asyncIteratorThrows(s) == s.isIterating

\* for await (const x of buffer): the iterator is obtained and its first
\* next() is called
forAwait(s) ==
    IF asyncIteratorThrows(s)
    THEN [threw |-> TRUE, s |-> s]
    ELSE [threw |-> FALSE, s |-> next(s)]

\* PushBuffer collect(n): if (this.isIterating) throw 'Cannot collect if
\* already iterating.'; return G.collect(this, n)
collect(s) ==
    IF s.isIterating THEN [threw |-> TRUE, s |-> s] ELSE forAwait(s)

\* Pipeline [Symbol.asyncIterator](): if (this.isIterating) throw
\* 'already iterating'; return this.  TRUE when it throws.
pipeline_asyncIteratorThrows(s) == s.pipeline.isIterating

\* for await (const x of pipeline)
pipeline_forAwait(s) ==
    IF pipeline_asyncIteratorThrows(s)
    THEN [threw |-> TRUE, s |-> s]
    ELSE [threw |-> FALSE, s |-> pipeline_next(s)]

\* Pipeline collect(n): return G.collect(this, n, this.handleError)
pipeline_collect(s) == pipeline_forAwait(s)

\* Pipeline consume(fn): return G.consume(this, fn, this.handleError)
consume(s) == pipeline_forAwait(s)

FlowCallbackUnchecked(s) ==
    [consumes |-> TRUE, threw |-> consume(s).threw, s |-> consume(s).s]

\* the callback of flow(): if (!this.isIterating) { this.consume() }
flowCallback(s) ==
    IF ~s.pipeline.isIterating
    THEN [consumes |-> TRUE, threw |-> consume(s).threw, s |-> consume(s).s]
    ELSE [consumes |-> FALSE, threw |-> FALSE, s |-> s]

\* an attempt to start iterating is made; its consumer, if it was let in,
\* has made the latest next() call
Attempt(on, how, threw) ==
    /\ Len(attempts) < MaxAttempts
    /\ Exercised \in {"none", on}
    /\ attempts' = Append(attempts, [on |-> on, how |-> how, threw |-> threw])
    /\ reader' = IF threw THEN reader ELSE Len(attempts) + 1

\* the consumers of the PushBuffer that were let in
BufferConsumers ==
    {i \in DOMAIN attempts : attempts[i].on = "buffer" /\ ~attempts[i].threw}

\* the consumers of the Pipeline that were let in
PipelineConsumers ==
    {i \in DOMAIN attempts : attempts[i].on = "pipeline" /\ ~attempts[i].threw}

\* the consumer that made the latest next() call is handed the item that the
\* run of the generator from s0 to s1 yielded
BufferReceivers(s0, s1, r) ==
    IF Len(s1.reads) > Len(s0.reads) /\ Last(s1.reads) > 0
    THEN receivers \cup {r}
    ELSE receivers

PipelineReceivers(s0, s1, r) ==
    IF Len(s1.results) > Len(s0.results) /\ Last(s1.results).kind = "value"
    THEN receivers \cup {r}
    ELSE receivers

BufferAttempt(how, r) ==
    /\ Attempt("buffer", how, r.threw)
    /\ SetPB(r.s)
    /\ hist' = Received(hist, PB, r.s)
    /\ receivers' = BufferReceivers(PB, r.s, reader')
    /\ UNCHANGED <<ouVars, plVars, restVars, flow>>

BufferForAwait == BufferAttempt("forAwait", forAwait(PB))

BufferCollect == BufferAttempt("collect", collect(PB))

\* a consumer that was let in asks for the next item
BufferNext ==
    /\ gen # "await"
    /\ Len(reads) < MaxReads
    /\ \E i \in BufferConsumers :
        /\ reader' = i
        /\ SetPB(next(PB))
        /\ hist' = Received(hist, PB, next(PB))
        /\ receivers' = BufferReceivers(PB, next(PB), i)
    /\ UNCHANGED <<ouVars, plVars, restVars, attempts, flow>>

\* the read suspended on the read gate continues
BufferResume ==
    /\ gen = "await"
    /\ readWaiter \in {"true", "false"}
    /\ SetPB(iterateResume(PB))
    /\ hist' = Received(hist, PB, iterateResume(PB))
    /\ receivers' = BufferReceivers(PB, iterateResume(PB), reader)
    /\ UNCHANGED <<ouVars, plVars, restVars, attempts, reader, flow>>

\* the producer of the exercised PushBuffer
BufferPush == Exercised = "buffer" /\ Push

PipelineAttempt(how, r) ==
    /\ Attempt("pipeline", how, r.threw)
    /\ SetPL(r.s)
    /\ receivers' = PipelineReceivers(PL, r.s, reader')
    /\ UNCHANGED <<pbVars, ouVars, restVars, pipeLog>>

PipelineForAwait ==
    PipelineAttempt("forAwait", pipeline_forAwait(PL)) /\ UNCHANGED flow

PipelineCollect ==
    PipelineAttempt("collect", pipeline_collect(PL)) /\ UNCHANGED flow

\* flow(): setImmediate(callback); return this
Flow ==
    /\ Exercised \in {"none", "pipeline"}
    /\ flow.pending + flow.ran < MaxFlow
    /\ flow' = [flow EXCEPT !.pending = @ + 1]
    /\ UNCHANGED <<pbVars, ouVars, plVars, restVars, attempts, reader, receivers>>

\* the next scheduling opportunity: a callback of flow() runs
FlowCallback ==
    /\ flow.pending > 0
    /\ flow' = [pending |-> flow.pending - 1, ran |-> flow.ran + 1]
    /\ IF flowCallback(PL).consumes
       THEN PipelineAttempt("flow", flowCallback(PL))
       ELSE UNCHANGED <<pbVars, ouVars, plVars, restVars, attempts, reader,
                        receivers>>

\* a consumer that was let in asks for the next element
PipelineConsumerNext ==
    /\ nextCall = "idle"
    /\ Len(results) < MaxNext
    /\ \E i \in PipelineConsumers :
        /\ reader' = i
        /\ SetPL(pipeline_next(PL))
        /\ receivers' = PipelineReceivers(PL, pipeline_next(PL), i)
    /\ UNCHANGED <<pbVars, ouVars, restVars, pipeLog, attempts, flow>>

\* iterate() of the exercised Pipeline continues
PipelineIterate ==
    /\ iterator.pc \in {"onStart", "pull", "onMessage", "close", "handleError",
                        "beforeFinally", "cleanup"}
    /\ iterator.pc = "cleanup" => CleanupSettled(PL)
    /\ \E c \in IterateChoices(PL) :
        /\ SetPL(iterate(PL, c))
        /\ receivers' = PipelineReceivers(PL, iterate(PL, c), reader)
    /\ UNCHANGED <<pbVars, ouVars, restVars, pipeLog, attempts, reader, flow>>

PipelineCleanup == Exercised = "pipeline" /\ Cleanup

ItNext ==
    \/ BufferForAwait
    \/ BufferCollect
    \/ BufferNext
    \/ BufferResume
    \/ BufferPush
    \/ PipelineForAwait
    \/ PipelineCollect
    \/ Flow
    \/ FlowCallback
    \/ PipelineConsumerNext
    \/ PipelineIterate
    \/ PipelineCleanup

(***************************************************************************)
(* A Gate on its own: its operations called in any order, with any number  *)
(* of check() calls outstanding.                                           *)
(***************************************************************************)
\* total number of check() calls explored
MaxChecks == 4

\* the gate goes to state g: the suspended check() calls are resolved
GateTransition(g) ==
    /\ gate' = g
    /\ checks' = [i \in DOMAIN checks |->
                     [checks[i] EXCEPT !.res = GateWake(@, g)]]
    /\ UNCHANGED <<pbVars, ouVars, plVars, itVars, errVars, jobVars, oneVars, ordVars, gwVars, pullVars>>

Open == GateTransition(GateOpen(gate))

Close == GateTransition(GateClose(gate))

Lock == GateTransition(GateLock(gate))

SetOpenState == \E shouldBeOpen \in BOOLEAN :
                    GateTransition(GateSetOpenState(gate, shouldBeOpen))

Check ==
    /\ Len(checks) < MaxChecks
    /\ checks' = Append(checks, [at |-> gate, res |-> GateCheck(gate)])
    /\ UNCHANGED <<gate, pbVars, ouVars, plVars, itVars, errVars, jobVars, oneVars, ordVars, gwVars, pullVars>>

GateNext ==
    \/ Open
    \/ Close
    \/ Lock
    \/ SetOpenState
    \/ Check

(***************************************************************************)
(* Handlers that throw.  The inOrderHandler and the gapHandler are code of *)
(* the caller: any invocation of them may throw.  The chain catches the    *)
(* exception and emits it as its 'error' event; the OrderingUtil listens   *)
(* to the 'error' event of every chain it creates and emits it again.      *)
(***************************************************************************)
\* total number of handler invocations that throw explored
MaxThrows == 2

KeyOf(m) == ChainKey(m.publisherId, m.msgChainId)

\* the handler invocations made on the chain of `key` between u0 and u1
HandlerCalls(u0, u1, key) ==
    LET d0 == Len(u0.delivered[key])
        g0 == Len(u0.gapCalls[key])
    IN  [i \in 1 .. Len(u1.delivered[key]) - d0 |->
            [key |-> key, handler |-> "inOrderHandler",
             arg |-> u1.delivered[key][d0 + i]]]
        \o
        [i \in 1 .. Len(u1.gapCalls[key]) - g0 |->
            [key |-> key, handler |-> "gapHandler",
             arg |-> u1.gapCalls[key][g0 + i][1]]]

\* the 'error' events of the chain in a run: one for every handler invocation
\* that threw, the run going on after each
ChainErrorEvents(calls, failing) ==
    SelectSeq(calls, LAMBDA c : c.arg \in failing)

EmitErrorDropped(events, chainEvents) == events

\* getChain: chain.on('error', (...args) => this.emit('error', ...args))
emitError(events, chainEvents) == events \o chainEvents

\* the arguments the handlers were invoked with between u0 and u1
HandlerArgs(u0, u1, key) ==
    LET calls == HandlerCalls(u0, u1, key)
    IN  {calls[i].arg : i \in DOMAIN calls}

\* a run of the chain of `key` from u0 to u1 in which the handler invocations
\* with an argument in `failing` throw
Throwing(u0, u1, key, failing) ==
    LET thrown == ChainErrorEvents(HandlerCalls(u0, u1, key), failing)
    IN  /\ Len(handlerThrows) + Len(thrown) <= MaxThrows
        /\ handlerThrows' = handlerThrows \o thrown
        /\ errorEvents' = emitError(errorEvents, thrown)

\* transport: message m arrives; any of the handler invocations it leads to
\* may throw
AddThrowing(m) ==
    LET u1 == add(OU, m)
    IN  /\ Len(delivered[KeyOf(m)]) <= MaxSeq
        /\ SetOU(u1)
        /\ \E failing \in SUBSET HandlerArgs(OU, u1, KeyOf(m)) :
               Throwing(OU, u1, KeyOf(m), failing)
        /\ UNCHANGED <<staleAdds, pbVars, plVars, itVars, gateVars, jobVars, oneVars, ordVars, gwVars, pullVars>>

AddWithHandlers == \E m \in Messages : AddThrowing(m)

\* the gap timer of one chain fires; any of the handler invocations it leads
\* to may throw
GapTimerThrowing(key) ==
    LET u1 == WithWorld(OU, key, ChainGapTimer(World(OU, key)))
    IN  /\ orderedChains[key].gap.active
        /\ Len(gapCalls[key]) < MaxGapCalls
        /\ SetOU(u1)
        /\ \E failing \in SUBSET HandlerArgs(OU, u1, key) :
               Throwing(OU, u1, key, failing)
        /\ UNCHANGED <<staleAdds, pbVars, plVars, itVars, gateVars, jobVars, oneVars, ordVars, gwVars, pullVars>>

GapTimerWithHandlers ==
    \E key \in DOMAIN orderedChains : GapTimerThrowing(key)

ErrNext ==
    \/ AddWithHandlers
    \/ GapTimerWithHandlers

(***************************************************************************)
(* pOne(fn) (utils/promises.ts).  The wrapped function is called by code   *)
(* of the caller, which runs as a task or as a job it queued itself; async *)
(* functions and promises continue as jobs, taken from the job queue in    *)
(* order once the running code has returned:                               *)
(*   - `return p` of an async function, p a pending or settled promise,    *)
(*     queues the job that calls p.then (job "thenable");                  *)
(*   - a promise that settles queues its reactions in the order they were  *)
(*     registered; then() and await on a settled promise queue at once.    *)
(* fn is code of the caller: it returns a value or a settled promise       *)
(* (sync), or a promise that the caller's code settles later.              *)
(***************************************************************************)
\* total number of calls of the wrapped function explored
MaxCalls == 4
\* total number of jobs the caller queues itself explored
MaxMicrotasks == 2
\* total number of calls of reset() explored
MaxResets == 2

\* what an invocation of fn does: it returns a promise that the caller's
\* code settles later, a value or a fulfilled promise, a rejected promise,
\* or it throws
FnReturns == {"promise", "value", "rejected", "throws"}

\* { status: 'init' }; `by` is the call of the wrapper whose invocation of
\* fn the object belongs to (0: none yet)
InitCall == [status |-> "init", fn |-> "none", reactions |-> <<>>, by |-> 0]

ONE == [callStatus |-> callStatus, currentCall |-> currentCall,
        wrapperCalls |-> wrapperCalls, received |-> received, jobs |-> jobs]

SetONE(s) ==
    /\ callStatus' = s.callStatus
    /\ currentCall' = s.currentCall
    /\ wrapperCalls' = s.wrapperCalls
    /\ received' = s.received
    /\ jobs' = s.jobs

Enqueue(s, type, id) == [s EXCEPT !.jobs = Append(@, [type |-> type, id |-> id])]

\* the invocations of fn that have not finished
Outstanding(s) == {c \in DOMAIN s.callStatus : s.callStatus[c].fn = "running"}

\* the state of the invocation of fn once fn has returned or thrown
FnAfterCall(ret) ==
    CASE ret = "promise" -> "running"
      [] ret = "value" -> "finished"
      [] ret = "rejected" -> "failed"
      [] ret = "throws" -> "threw"

\* the promise of the CallStatus object is still pending
PromisePending(cs) == cs.status = "pending" /\ cs.fn # "threw"

\* what the promise of the CallStatus object has settled with
Settlement(cs) ==
    [status |-> IF cs.fn \in {"failed", "threw"} THEN "rejected" ELSE "fulfilled",
     by |-> cs.by]

\* a wrapper that calls fn whenever the current call is not settled yet
pOnceWrapNoPending(s, k, ret) ==
    LET c == s.currentCall
        st == s.callStatus[c].status
        s1 == [s EXCEPT !.wrapperCalls =
                  Append(@, [thisCall |-> c, started |-> st \in {"init", "pending"},
                             outstanding |-> Outstanding(s)])]
    IN  IF st \in {"fulfilled", "rejected"}
        THEN [settled |-> TRUE, s |-> s1]
        ELSE LET s2 == [s1 EXCEPT !.callStatus[c].status = "pending",
                                  !.callStatus[c].by = k,
                                  !.callStatus[c].fn = FnAfterCall(ret)]
                 s3 == IF ret \in {"value", "rejected"}
                       THEN Enqueue(s2, "settle", c) ELSE s2
             IN  [settled |-> FALSE, s |-> Enqueue(s3, "thenable", k)]

\* pOnceWrap(...args), call number k of the wrapper: the state it leaves and
\* whether the promise it returns is already settled
pOnceWrap(s, k, ret) ==
    LET c == s.currentCall
        st == s.callStatus[c].status
        s1 == [s EXCEPT !.wrapperCalls =
                  Append(@, [thisCall |-> c, started |-> st = "init",
                             outstanding |-> Outstanding(s)])]
    IN  IF st = "pending"
        \* return thisCall.promise
        THEN [settled |-> FALSE, s |-> Enqueue(s1, "thenable", k)]
        ELSE IF st = "fulfilled"
        \* return thisCall.value
        THEN [settled |-> TRUE, s |-> s1]
        ELSE IF st = "rejected"
        \* throw thisCall.reason
        THEN [settled |-> TRUE, s |-> s1]
        \* status === 'init': const promise = (async () => { try { await
        \* fn(...args) ... } catch ... })(); status: 'pending'; return
        \* promise.  When fn throws, the catch block has run and the promise
        \* is rejected before the status is set to 'pending', where it stays
        ELSE LET s2 == [s1 EXCEPT !.callStatus[c].status = "pending",
                                  !.callStatus[c].by = k,
                                  !.callStatus[c].fn = FnAfterCall(ret)]
                 s3 == IF ret \in {"value", "rejected"}
                       THEN Enqueue(s2, "settle", c) ELSE s2
             IN  [settled |-> FALSE, s |-> Enqueue(s3, "thenable", k)]

\* the function pOne returns, up to `await once(...args)`
pOne(s, sync) ==
    LET k == Len(s.wrapperCalls) + 1
        r == pOnceWrap(s, k, IF sync THEN "value" ELSE "promise")
    IN  IF r.settled THEN Enqueue(r.s, "resume", k) ELSE r.s

\* the promise fn returned is fulfilled: the async function in pOnceWrap
\* continues after `await fn(...args)`
fnFulfilled(s, c) ==
    Enqueue([s EXCEPT !.callStatus[c].fn = "finished"], "settle", c)

\* job: thisCall.promise.then(...) for the promise pOnceWrap of call k returned
thenable(s, k) ==
    LET c == s.wrapperCalls[k].thisCall
    IN  IF PromisePending(s.callStatus[c])
        THEN [s EXCEPT !.callStatus[c].reactions = Append(@, k)]
        ELSE Enqueue(s, "reaction", k)

RECURSIVE EnqueueAll(_, _, _)
EnqueueAll(s, type, ids) ==
    IF ids = <<>>
    THEN s
    ELSE EnqueueAll(Enqueue(s, type, Head(ids)), type, Tail(ids))

\* job: Object.assign(thisCall, { status: 'fulfilled', value }); return
\* value, or Object.assign(thisCall, { status: 'rejected', reason }); throw
\* reason: the promise is settled and its reactions are queued
settle(s, c) ==
    EnqueueAll([s EXCEPT !.callStatus[c].status =
                             IF s.callStatus[c].fn = "failed"
                             THEN "rejected" ELSE "fulfilled",
                         !.callStatus[c].reactions = <<>>],
               "reaction", s.callStatus[c].reactions)

\* the promise fn returned is rejected: the async function in pOnceWrap
\* continues in its catch block
fnRejected(s, c) ==
    Enqueue([s EXCEPT !.callStatus[c].fn = "failed"], "settle", c)

\* the promise pOnceWrap of call k returned is settled, as the promise of
\* its thisCall is, or with thisCall.value or thisCall.reason
receive(s, k) ==
    [s EXCEPT !.received =
        [j \in DOMAIN @ \cup {k} |->
            IF j = k THEN Settlement(s.callStatus[s.wrapperCalls[k].thisCall])
            ELSE @[j]]]

\* a call of the function pOnce returned, made by the caller
pOnceCall(s, ret) ==
    LET k == Len(s.wrapperCalls) + 1
        r == pOnceWrap(s, k, ret)
    IN  IF r.settled THEN receive(r.s, k) ELSE r.s

\* job: the promise pOnceWrap of call k returned is fulfilled; the await in
\* the function of pOne is waiting on it
reaction(s, k) == Enqueue(s, "resume", k)

\* reset() { currentCall = { status: 'init' } }
reset(s) ==
    [s EXCEPT !.callStatus = Append(@, InitCall),
              !.currentCall = Len(s.callStatus) + 1]

\* job: the function of pOne after its await: finally { once.reset() }; the
\* promise it returned is fulfilled, the caller that awaits it continues
resume(s, k) == Enqueue(reset(s), "user", k)

(***************************************************************************)
(* Actions: the caller's code, and the job queue.                          *)
(***************************************************************************)
\* the caller calls the wrapped function
Call ==
    /\ ctx = "user"
    /\ Len(wrapperCalls) < MaxCalls
    /\ \E sync \in BOOLEAN : SetONE(pOne(ONE, sync))
    /\ UNCHANGED <<ctx, microtasks, pbVars, ouVars, plVars, itVars, gateVars, errVars, ordVars, gwVars, pullVars>>

\* the caller fulfils the promise an invocation of fn returned
FnFulfilled ==
    /\ ctx = "user"
    /\ \E c \in Outstanding(ONE) : SetONE(fnFulfilled(ONE, c))
    /\ UNCHANGED <<ctx, microtasks, pbVars, ouVars, plVars, itVars, gateVars, errVars, ordVars, gwVars, pullVars>>

\* the caller queues a job of its own: queueMicrotask, a then() on a settled
\* promise
QueueMicrotask ==
    /\ ctx = "user"
    /\ microtasks < MaxMicrotasks
    /\ microtasks' = microtasks + 1
    /\ SetONE(Enqueue(ONE, "user", 0))
    /\ UNCHANGED <<ctx, pbVars, ouVars, plVars, itVars, gateVars, errVars, ordVars, gwVars, pullVars>>

\* the caller calls a function wrapped by pOnce
OnceCall ==
    /\ ctx = "user"
    /\ Len(wrapperCalls) < MaxCalls
    /\ \E ret \in FnReturns : SetONE(pOnceCall(ONE, ret))
    /\ UNCHANGED <<ctx, microtasks, pbVars, ouVars, plVars, itVars, gateVars, errVars, ordVars, gwVars, pullVars>>

\* the caller rejects the promise an invocation of fn returned
FnRejected ==
    /\ ctx = "user"
    /\ \E c \in Outstanding(ONE) : SetONE(fnRejected(ONE, c))
    /\ UNCHANGED <<ctx, microtasks, pbVars, ouVars, plVars, itVars, gateVars, errVars, ordVars, gwVars, pullVars>>

\* the caller calls reset() of a function wrapped by pOnce
OnceReset ==
    /\ ctx = "user"
    /\ Len(callStatus) <= MaxResets
    /\ SetONE(reset(ONE))
    /\ UNCHANGED <<ctx, microtasks, pbVars, ouVars, plVars, itVars, gateVars, errVars, ordVars, gwVars, pullVars>>

\* the caller's code returns: the job queue is run
CallerReturns ==
    /\ ctx = "user"
    /\ ctx' = "jobs"
    /\ UNCHANGED <<jobs, microtasks, oneVars, pbVars, ouVars, plVars, itVars, gateVars, errVars, ordVars, gwVars, pullVars>>

\* the head of the job queue runs
RunJob(type, s) ==
    /\ ctx = "jobs"
    /\ jobs # <<>>
    /\ Head(jobs).type = type
    /\ SetONE(s)
    /\ ctx' = IF type = "user" THEN "user" ELSE "jobs"
    /\ UNCHANGED <<microtasks, pbVars, ouVars, plVars, itVars, gateVars, errVars, ordVars, gwVars, pullVars>>

Popped == [ONE EXCEPT !.jobs = Tail(@)]

Thenable == RunJob("thenable", thenable(Popped, Head(jobs).id))

SettleJob == RunJob("settle", settle(Popped, Head(jobs).id))

Reaction == RunJob("reaction", reaction(Popped, Head(jobs).id))

Resume == RunJob("resume", resume(Popped, Head(jobs).id))

\* job: the promise a call of a function wrapped by pOnce returned settles
Receive == RunJob("reaction", receive(Popped, Head(jobs).id))

\* a job of the caller: code of the caller runs
UserJob == RunJob("user", Popped)

\* the job queue is empty: the next task (a timer, an I/O event) runs code
\* of the caller
Task ==
    /\ ctx = "jobs"
    /\ jobs = <<>>
    /\ ctx' = "user"
    /\ UNCHANGED <<jobs, microtasks, oneVars, pbVars, ouVars, plVars, itVars, gateVars, errVars, ordVars, gwVars, pullVars>>

OneNext ==
    \/ Call
    \/ FnFulfilled
    \/ QueueMicrotask
    \/ CallerReturns
    \/ Thenable
    \/ SettleJob
    \/ Reaction
    \/ Resume
    \/ UserJob
    \/ Task

\* a function wrapped by pOnce and its callers, whose code runs as tasks
OnceNext ==
    \/ OnceCall
    \/ FnFulfilled
    \/ FnRejected
    \/ OnceReset
    \/ CallerReturns
    \/ Thenable
    \/ SettleJob
    \/ Receive
    \/ Task

(***************************************************************************)
(* pOrderedResolve(fn) (utils/promises.ts).  Every call makes a Defer d,   *)
(* hands () => d to a queue of concurrency one (pLimit(1) of the p-limit   *)
(* package: it calls the functions given to it one at a time, the next     *)
(* one once the promise of the one before has settled, and the promise it  *)
(* returns follows the promise of the function), invokes fn, settles d     *)
(* with the outcome of fn and returns the promise of the queue.  The       *)
(* promises continue as jobs on the job queue above.                       *)
(***************************************************************************)
\* total number of calls of the wrapped function explored
MaxOrdered == 3

\* the outcomes of a promise
Outcomes == {"fulfilled", "rejected"}

\* what fn does when it is invoked: it returns a value or a settled promise,
\* it returns a promise that settles later, it throws
FnBehaviours == {"fulfilled", "rejected", "pending", "threw"}

ORD == [ordered |-> ordered, limit |-> limit, settledOrder |-> settledOrder,
        jobs |-> jobs]

SetORD(s) ==
    /\ ordered' = s.ordered
    /\ limit' = s.limit
    /\ settledOrder' = s.settledOrder
    /\ jobs' = s.jobs

\* the promises of one call: fn (the promise fn returned), d (the Defer),
\* result and done (the promise of () => d inside the queue, and the promise
\* queue(() => d) returned), outer (the promise the call returned); dThen,
\* resultThen and doneThen are the reactions registered on d, result and done
NewCall ==
    [fn |-> "none", d |-> "pending", result |-> "none", done |-> "pending",
     outer |-> "pending", dThen |-> FALSE, resultThen |-> <<>>,
     doneThen |-> FALSE]

\* p-limit, run: activeCount++; const result = (async () => fn(...args))();
\* resolve(result); await result; (continued in pLimit_next)
pLimit_run(s, h) ==
    LET s1 == [s EXCEPT !.limit.activeCount = @ + 1,
                        !.ordered[h].result = "pending",
                        !.ordered[h].resultThen = <<"runContinues">>]
    IN  Enqueue(Enqueue(s1, "resultThenable", h), "doneThenable", h)

\* p-limit: if (queue.size > 0) queue.dequeue()()
pLimit_dequeue(s) ==
    IF s.limit.queue # <<>>
    THEN pLimit_run([s EXCEPT !.limit.queue = Tail(@)], Head(s.limit.queue))
    ELSE s

\* p-limit, enqueue: queue.enqueue(run.bind(...)); (async () => { await
\* Promise.resolve(); (continued in pLimit_start) })()
pLimit_enqueue(s, k) ==
    Enqueue([s EXCEPT !.limit.queue = Append(@, k)], "start", k)

\* job: p-limit, enqueue after its await: if (activeCount < concurrency &&
\* queue.size > 0) queue.dequeue()()
pLimit_start(s) ==
    IF s.limit.activeCount < 1 THEN pLimit_dequeue(s) ELSE s

\* job: p-limit, run after `await result`: next(): activeCount--; if
\* (queue.size > 0) queue.dequeue()()
pLimit_next(s) ==
    pLimit_dequeue([s EXCEPT !.limit.activeCount = @ - 1])

\* the function pOrderedResolve returns, up to its await: const d = new
\* Defer(); const done = queue(() => d); await Promise.resolve(fn(...args))
\* .then(d.resolve.bind(d), d.reject.bind(d)).  A throw of fn rejects the
\* promise the call returned at once
pOrderedResolve(s, behaviour) ==
    LET k == Len(s.ordered) + 1
        s1 == pLimit_enqueue([s EXCEPT !.ordered = Append(@, NewCall)], k)
        s2 == [s1 EXCEPT !.ordered[k].fn = behaviour]
    IN  IF behaviour = "threw"
        THEN [s2 EXCEPT !.ordered[k].outer = "rejected",
                        !.settledOrder = Append(@, k)]
        ELSE IF behaviour = "pending"
        THEN s2
        ELSE Enqueue(s2, "then", k)

\* the promise fn returned for call k settles
fnSettled(s, k, outcome) ==
    Enqueue([s EXCEPT !.ordered[k].fn = outcome], "then", k)

\* job: d.resolve(value) or d.reject(reason): d settles, and the promise of
\* then() is fulfilled: the await of the call continues
dSettled(s, k) ==
    LET s1 == [s EXCEPT !.ordered[k].d = s.ordered[k].fn]
        s2 == IF s.ordered[k].dThen THEN Enqueue(s1, "resultSettled", k) ELSE s1
    IN  Enqueue(s2, "awaited", k)

\* job: the call after its await: return done
awaited(s, k) == Enqueue(s, "outerThenable", k)

\* job: done.then(...) for the promise the call returned
outerThenable(s, k) ==
    IF s.ordered[k].done = "pending"
    THEN [s EXCEPT !.ordered[k].doneThen = TRUE]
    ELSE Enqueue(s, "outerSettled", k)

\* job: the promise call k returned settles as done did
outerSettled(s, k) ==
    [s EXCEPT !.ordered[k].outer = s.ordered[k].done,
              !.settledOrder = Append(@, k)]

\* job: d.then(...) for the promise of (async () => d)()
resultThenable(s, h) ==
    IF s.ordered[h].d = "pending"
    THEN [s EXCEPT !.ordered[h].dThen = TRUE]
    ELSE Enqueue(s, "resultSettled", h)

\* job: result.then(...) for the promise queue(() => d) returned
doneThenable(s, h) ==
    IF s.ordered[h].result = "pending"
    THEN [s EXCEPT !.ordered[h].resultThen = Append(@, "doneSettled")]
    ELSE Enqueue(s, "doneSettled", h)

\* job: the promise of (async () => d)() settles as d did; its reactions are
\* queued in the order they were registered
resultSettled(s, h) ==
    LET reactions == s.ordered[h].resultThen
        s1 == [s EXCEPT !.ordered[h].result = s.ordered[h].d,
                        !.ordered[h].resultThen = <<>>]
        RECURSIVE All(_, _)
        All(t, rs) ==
            IF rs = <<>> THEN t ELSE All(Enqueue(t, Head(rs), h), Tail(rs))
    IN  All(s1, reactions)

\* job: the promise queue(() => d) returned settles as the result did
doneSettled(s, h) ==
    LET s1 == [s EXCEPT !.ordered[h].done = s.ordered[h].result]
    IN  IF s.ordered[h].doneThen THEN Enqueue(s1, "outerSettled", h) ELSE s1

\* clear() { queue.clearQueue() }
pOrderedResolve_clear(s) == [s EXCEPT !.limit.queue = <<>>]

(***************************************************************************)
(* Actions: the caller's code, and the job queue.                          *)
(***************************************************************************)
\* the caller calls the wrapped function
OrderedCall ==
    /\ ctx = "user"
    /\ Len(ordered) < MaxOrdered
    /\ \E behaviour \in FnBehaviours : SetORD(pOrderedResolve(ORD, behaviour))
    /\ UNCHANGED <<ctx, microtasks, pbVars, ouVars, plVars, itVars, gateVars,
                   errVars, oneVars, gwVars, pullVars>>

\* the caller settles the promise an invocation of fn returned
OrderedFnSettled ==
    /\ ctx = "user"
    /\ \E k \in DOMAIN ordered, outcome \in Outcomes :
           /\ ordered[k].fn = "pending"
           /\ SetORD(fnSettled(ORD, k, outcome))
    /\ UNCHANGED <<ctx, microtasks, pbVars, ouVars, plVars, itVars, gateVars,
                   errVars, oneVars, gwVars, pullVars>>

\* the caller calls clear()
OrderedClear ==
    /\ ctx = "user"
    /\ limit.queue # <<>>
    /\ SetORD(pOrderedResolve_clear(ORD))
    /\ UNCHANGED <<ctx, microtasks, pbVars, ouVars, plVars, itVars, gateVars,
                   errVars, oneVars, gwVars, pullVars>>

\* the head of the job queue runs
OrderedJob(type, s) ==
    /\ ctx = "jobs"
    /\ jobs # <<>>
    /\ Head(jobs).type = type
    /\ SetORD(s)
    /\ UNCHANGED <<ctx, microtasks, pbVars, ouVars, plVars, itVars, gateVars,
                   errVars, oneVars, gwVars, pullVars>>

OrdPopped == [ORD EXCEPT !.jobs = Tail(@)]

PLimitStart == OrderedJob("start", pLimit_start(OrdPopped))

DSettled == OrderedJob("then", dSettled(OrdPopped, Head(jobs).id))

Awaited == OrderedJob("awaited", awaited(OrdPopped, Head(jobs).id))

OuterThenable == OrderedJob("outerThenable", outerThenable(OrdPopped, Head(jobs).id))

OuterSettled == OrderedJob("outerSettled", outerSettled(OrdPopped, Head(jobs).id))

ResultThenable == OrderedJob("resultThenable", resultThenable(OrdPopped, Head(jobs).id))

DoneThenable == OrderedJob("doneThenable", doneThenable(OrdPopped, Head(jobs).id))

ResultSettled == OrderedJob("resultSettled", resultSettled(OrdPopped, Head(jobs).id))

RunContinues == OrderedJob("runContinues", pLimit_next(OrdPopped))

DoneSettled == OrderedJob("doneSettled", doneSettled(OrdPopped, Head(jobs).id))

OrdNext ==
    \/ OrderedCall
    \/ OrderedFnSettled
    \/ OrderedClear
    \/ QueueMicrotask
    \/ CallerReturns
    \/ PLimitStart
    \/ DSettled
    \/ Awaited
    \/ OuterThenable
    \/ OuterSettled
    \/ ResultThenable
    \/ DoneThenable
    \/ ResultSettled
    \/ RunContinues
    \/ DoneSettled
    \/ UserJob
    \/ Task

(***************************************************************************)
(* ObservableEventEmitter and initEventGateway (events.ts).  The delegate  *)
(* is an EventEmitter3: on() and once() append a listener, off() removes   *)
(* every listener registered with that function, emit() calls the          *)
(* listeners registered when it started, in order, removing a once()       *)
(* listener right before calling it; an exception of a listener ends       *)
(* emit().  A listener is code of the caller: it returns or it throws.     *)
(***************************************************************************)
\* number of listeners registered at a time explored
MaxListeners == 3

\* the event of the gateway, and another event
eventName == "gateway"

EventNames == {eventName, "other"}

\* the functions given as listeners: "returns" returns when it is called,
\* "throws" throws
ListenerFns == {"returns", "throws"}

EM == [delegate |-> delegate, producer |-> producer, gateway |-> gateway]

SetEM(s) ==
    /\ delegate' = s.delegate
    /\ producer' = s.producer
    /\ gateway' = s.gateway

\* getListenerCount(eventName): this.delegate.listenerCount(eventName)
getListenerCount(s, e) ==
    Cardinality({i \in DOMAIN s.delegate : s.delegate[i].event = e})

\* producer = start(emit)
start(s) ==
    [s EXCEPT !.producer = "running",
              !.gateway.alternate = @ /\ s.gateway.last # "start",
              !.gateway.last = "start"]

\* stop(producer); producer = undefined
stop(s) ==
    [s EXCEPT !.producer = "undefined",
              !.gateway.alternate = @ /\ s.gateway.last # "stop",
              !.gateway.last = "stop"]

\* this.observer.emit('addEventListener', sourceEvent): the handler of the
\* gateway, once there is one
addEventListener(s, sourceEvent) ==
    IF /\ s.gateway.installed
       /\ sourceEvent = eventName
       /\ s.producer = "undefined"
    THEN start(s)
    ELSE s

\* this.observer.emit('removeEventListener', sourceEvent): the handler of
\* the gateway, once there is one
removeEventListener(s, sourceEvent) ==
    IF /\ s.gateway.installed
       /\ sourceEvent = eventName
       /\ s.producer # "undefined"
       /\ getListenerCount(s, eventName) = 0
    THEN stop(s)
    ELSE s

\* on(eventName, listener)
on(s, e, listener) ==
    addEventListener(
        [s EXCEPT !.delegate =
            Append(@, [event |-> e, fn |-> listener, once |-> FALSE])], e)

\* once(eventName, listener): the delegate gets wrappedFn
once(s, e, listener) ==
    addEventListener(
        [s EXCEPT !.delegate =
            Append(@, [event |-> e, fn |-> listener, once |-> TRUE])], e)

\* off(eventName, listener): the delegate removes the listeners whose
\* function is `listener`; the function of a once() listener is its
\* wrappedFn
off(s, e, listener) ==
    LET Kept(l) == ~(l.event = e /\ l.fn = listener /\ ~l.once)
    IN  removeEventListener([s EXCEPT !.delegate = SelectSeq(@, Kept)], e)

\* removeAllListeners(): one 'removeEventListener' for every event that had
\* a listener
removeAllListeners(s) ==
    LET eventNames == {s.delegate[i].event : i \in DOMAIN s.delegate}
        RECURSIVE Emitted(_, _)
        Emitted(t, names) ==
            IF names = {}
            THEN t
            ELSE LET e == CHOOSE n \in names : TRUE
                 IN  Emitted(removeEventListener(t, e), names \ {e})
    IN  Emitted([s EXCEPT !.delegate = <<>>], eventNames)

\* the sequence without the first element equal to l
RECURSIVE WithoutFirst(_, _)
WithoutFirst(seq, l) ==
    IF seq = <<>>
    THEN <<>>
    ELSE IF Head(seq) = l
    THEN Tail(seq)
    ELSE <<Head(seq)>> \o WithoutFirst(Tail(seq), l)

\* the listeners called by emit(), in order.  A once() listener is removed
\* from the delegate, then wrappedFn runs: listener(payload);
\* this.observer.emit('removeEventListener', eventName).  A listener that
\* throws ends wrappedFn and emit() there
RECURSIVE Called(_, _, _)
Called(s, e, listeners) ==
    IF listeners = <<>>
    THEN s
    ELSE LET l == Head(listeners)
             s1 == IF l.once
                   THEN [s EXCEPT !.delegate = WithoutFirst(@, l)]
                   ELSE s
         IN  IF l.fn = "throws"
             THEN s1
             ELSE Called(IF l.once THEN removeEventListener(s1, e) ELSE s1,
                         e, Tail(listeners))

\* emit(eventName, payload): this.delegate.emit(eventName, payload)
emit(s, e) ==
    LET Registered(l) == l.event = e
    IN  Called(s, e, SelectSeq(s.delegate, Registered))

\* initEventGateway(eventName, start, stop, emitter)
initEventGateway(s) ==
    LET s1 == [s EXCEPT !.gateway.installed = TRUE]
    IN  IF getListenerCount(s, eventName) > 0 THEN start(s1) ELSE s1

(***************************************************************************)
(* Actions: the calls of the emitter's methods and of initEventGateway.    *)
(***************************************************************************)
On ==
    /\ Len(delegate) < MaxListeners
    /\ \E e \in EventNames, listener \in ListenerFns : SetEM(on(EM, e, listener))
    /\ UNCHANGED <<pbVars, ouVars, plVars, itVars, gateVars, errVars, jobVars,
                   oneVars, ordVars, pullVars>>

Once ==
    /\ Len(delegate) < MaxListeners
    /\ \E e \in EventNames, listener \in ListenerFns : SetEM(once(EM, e, listener))
    /\ UNCHANGED <<pbVars, ouVars, plVars, itVars, gateVars, errVars, jobVars,
                   oneVars, ordVars, pullVars>>

Off ==
    /\ \E e \in EventNames, listener \in ListenerFns : SetEM(off(EM, e, listener))
    /\ UNCHANGED <<pbVars, ouVars, plVars, itVars, gateVars, errVars, jobVars,
                   oneVars, ordVars, pullVars>>

RemoveAllListeners ==
    /\ SetEM(removeAllListeners(EM))
    /\ UNCHANGED <<pbVars, ouVars, plVars, itVars, gateVars, errVars, jobVars,
                   oneVars, ordVars, pullVars>>

Emit ==
    /\ \E e \in EventNames : SetEM(emit(EM, e))
    /\ UNCHANGED <<pbVars, ouVars, plVars, itVars, gateVars, errVars, jobVars,
                   oneVars, ordVars, pullVars>>

\* the gateway is installed once
InitEventGateway ==
    /\ ~gateway.installed
    /\ SetEM(initEventGateway(EM))
    /\ UNCHANGED <<pbVars, ouVars, plVars, itVars, gateVars, errVars, jobVars,
                   oneVars, ordVars, pullVars>>

GatewayNext ==
    \/ On
    \/ Once
    \/ Off
    \/ RemoveAllListeners
    \/ Emit
    \/ InitEventGateway

(***************************************************************************)
(* pull(src, dest) and dest.pull(src): the items of the source src are     *)
(* pushed into the PushBuffer, one at a time, each push awaited.  src is   *)
(* an async generator of the caller: asked for its next item it yields     *)
(* one, finishes, or throws; a break of the for-await loop calls its       *)
(* return().  The consumer of the buffer and the calls of end(), return()  *)
(* and clear() on it run in between.                                       *)
(***************************************************************************)
\* number of items the source can yield explored
MaxSource == 3

PullKinds == {"function", "method"}

\* the history after push(item) on the buffer s
HistPush(h, s, item) ==
    IF isWritable(s)
    THEN [h EXCEPT !.nAcc = @ + 1, !.fresh = TRUE,
                   !.pushedErr = @ \/ isError(item)]
    ELSE h

\* the history after endWrite(err) on the buffer s
HistEndWrite(h, s, err) ==
    IF ~h.ew /\ s.gen # "done" /\ isWritable(s)
    THEN [h EXCEPT !.ew = TRUE, !.ewLeft = s.buffer, !.ewErr = err,
                   !.ewPush = Len(s.pushRes), !.ewK = Len(s.buffer),
                   !.ewClean = \A i \in DOMAIN s.buffer : ~isError(s.buffer[i])]
    ELSE h

PullNeverBreaks(s, kind, ok) == FALSE

\* after `const ok = await dest.push(v)`: whether the loop is left by break.
\* pull: if (!ok); PushBuffer.pull: if (!ok || !this.isWritable())
pullBreaks(s, kind, ok) ==
    \/ ~ok
    \/ kind = "method" /\ ~isWritable(s)

\* src threw err inside the loop.  pull: catch (err) { dest.endWrite(err) }
\* finally { dest.endWrite() }; PushBuffer.pull: catch (err) { } and then
\* this.endWrite()
pullCatch(s, kind, err) ==
    IF kind = "function"
    THEN endWrite(endWrite(s, err), 0)
    ELSE endWrite(s, 0)

\* the loop was left without an error: dest.endWrite() (the finally block of
\* pull, the last statement of PushBuffer.pull)
pullEnd(s) == endWrite(s, 0)

(***************************************************************************)
(* Actions of pull.                                                        *)
(***************************************************************************)
\* pull(src, dest) or dest.pull(src) is called: the loop asks src for its
\* first item
PullStart ==
    /\ puller.pc = "idle"
    /\ \E kind \in PullKinds : puller' = [puller EXCEPT !.kind = kind, !.pc = "next"]
    /\ UNCHANGED <<pullSource, pbVars, ouVars, plVars, itVars, gateVars,
                   errVars, jobVars, oneVars, ordVars, gwVars>>

\* src yields its next item v: dest.push(v)
SourceYields ==
    /\ puller.pc = "next"
    /\ pullSource.state = "open"
    /\ pullSource.sent < MaxSource
    /\ LET item == pullSource.sent + 1
       IN  /\ SetPB(push(PB, item))
           /\ hist' = HistPush(hist, PB, item)
           /\ pullSource' = [pullSource EXCEPT !.sent = item]
           /\ puller' = [puller EXCEPT !.pc = "pushed", !.push = Len(pushRes) + 1]
    /\ UNCHANGED <<ouVars, plVars, itVars, gateVars, errVars, jobVars,
                   oneVars, ordVars, gwVars>>

\* src finishes: the loop ends, the write side of the buffer is ended
SourceDone ==
    /\ puller.pc = "next"
    /\ pullSource.state = "open"
    /\ SetPB(pullEnd(PB))
    /\ hist' = HistEndWrite(hist, PB, 0)
    /\ pullSource' = [pullSource EXCEPT !.state = "done"]
    /\ puller' = [puller EXCEPT !.pc = "finished"]
    /\ UNCHANGED <<ouVars, plVars, itVars, gateVars, errVars, jobVars,
                   oneVars, ordVars, gwVars>>

\* src throws err
SourceThrows ==
    /\ puller.pc = "next"
    /\ pullSource.state = "open"
    /\ \E err \in Errors :
           /\ SetPB(pullCatch(PB, puller.kind, err))
           /\ hist' = HistEndWrite(hist, PB,
                                   IF puller.kind = "function" THEN err ELSE 0)
           /\ pullSource' = [pullSource EXCEPT !.state = "threw", !.error = err]
    /\ puller' = [puller EXCEPT !.pc = "finished"]
    /\ UNCHANGED <<ouVars, plVars, itVars, gateVars, errVars, jobVars,
                   oneVars, ordVars, gwVars>>

\* the push of pull has resolved: the loop goes on with the next item of
\* src, or is left by break, which calls src.return()
PullResume ==
    /\ puller.pc = "pushed"
    /\ pushRes[puller.push] \in {"true", "false"}
    /\ IF pullBreaks(PB, puller.kind, pushRes[puller.push] = "true")
       THEN /\ puller' = [puller EXCEPT !.pc = "closing", !.broke = TRUE]
            /\ pullSource' = [pullSource EXCEPT !.state = "returned",
                                                !.returnCalls = @ + 1]
       ELSE /\ puller' = [puller EXCEPT !.pc = "next"]
            /\ UNCHANGED pullSource
    /\ UNCHANGED <<pbVars, ouVars, plVars, itVars, gateVars, errVars, jobVars,
                   oneVars, ordVars, gwVars>>

\* src.return() has finished: the write side of the buffer is ended
PullClose ==
    /\ puller.pc = "closing"
    /\ SetPB(pullEnd(PB))
    /\ hist' = HistEndWrite(hist, PB, 0)
    /\ puller' = [puller EXCEPT !.pc = "finished"]
    /\ UNCHANGED <<pullSource, ouVars, plVars, itVars, gateVars, errVars,
                   jobVars, oneVars, ordVars, gwVars>>

\* the steps of pull
PullSteps ==
    \/ PullStart
    \/ SourceYields
    \/ SourceDone
    \/ SourceThrows
    \/ PullResume
    \/ PullClose

\* pull, the consumer of the buffer, and end(), return() and clear()
PullNext ==
    \/ PullSteps
    \/ Read
    \/ ReadResume
    \/ End
    \/ Return
    \/ Clear

Init ==
    \* new PushBuffer(BufferSize): both gates start closed
    /\ buffer = <<>>
    /\ writeGate = "closed"
    /\ readGate = "closed"
    /\ error = 0
    /\ isIterating = FALSE
    /\ gen = "start"
    /\ readWaiter = "none"
    /\ queued = FALSE
    /\ pushRes = <<>>
    /\ reads = <<>>
    /\ hist = HistInit
    \* new OrderingUtil(inOrderHandler, gapHandler, ..., MaxGapRequests)
    /\ orderedChains = <<>>
    /\ maxGapRequests = MaxGapRequests
    /\ delivered = [k \in Keys |-> <<>>]
    /\ gapCalls = [k \in Keys |-> <<>>]
    /\ skips = [k \in Keys |-> 0]
    /\ staleAdds = {}
    \* new Pipeline(source)
    /\ pipeline = [isIterating |-> FALSE, isCleaningUp |-> FALSE,
                   transforms |-> <<>>, transformsBefore |-> <<>>]
    /\ cleanupCall = [status |-> "init", pc |-> "idle", error |-> NoError,
                      threw |-> FALSE]
    /\ iterator = [pc |-> "start", chain |-> <<>>, msg |-> NoElement,
                   ending |-> "none", err |-> NoError, queue |-> <<>>]
    /\ signals = [onStart |-> SignalOnce, onMessage |-> <<>>, onError |-> <<>>,
                  onBeforeFinally |-> SignalOnce, onFinally |-> SignalOnce]
    /\ source = [sent |-> 0, closed |-> FALSE, returnCalls |-> 0, throwCalls |-> 0]
    /\ nextCall = "idle"
    /\ returnCall = [pc |-> "idle", result |-> NoResult]
    /\ throwCall = [pc |-> "idle", result |-> NoResult]
    /\ results = <<>>
    /\ pipeLog = <<>>
    \* no consumer yet
    /\ attempts = <<>>
    /\ reader = 0
    /\ receivers = {}
    /\ flow = [pending |-> 0, ran |-> 0]
    \* new Gate(): open
    /\ gate = "open"
    /\ checks = <<>>
    \* no handler has thrown
    /\ handlerThrows = <<>>
    /\ errorEvents = <<>>
    \* a task of the caller is running; no job is queued
    /\ jobs = <<>>
    /\ ctx = "user"
    /\ microtasks = 0
    \* pOne(fn): const once = pOnce(fn), currentCall = { status: 'init' }
    /\ callStatus = <<InitCall>>
    /\ currentCall = 1
    /\ wrapperCalls = <<>>
    /\ received = <<>>
    \* pOrderedResolve(fn): const queue = pLimit(1)
    /\ ordered = <<>>
    /\ limit = [activeCount |-> 0, queue |-> <<>>]
    /\ settledOrder = <<>>
    \* new ObservableEventEmitter(): no listener, no gateway
    /\ delegate = <<>>
    /\ producer = "undefined"
    /\ gateway = [installed |-> FALSE, last |-> "none", alternate |-> TRUE]
    \* pull has not been called; src has not been started
    /\ puller = [kind |-> "none", pc |-> "idle", push |-> 0, broke |-> FALSE]
    /\ pullSource = [sent |-> 0, state |-> "open", error |-> 0, returnCalls |-> 0]

SpecPB == Init /\ [][PBNext]_vars

SpecAwait == Init /\ [][AwaitNext]_vars

SpecOU == Init /\ [][OUNext]_vars

\* the chains with their gap timers running: nothing cancels a timer
\* (clearGaps and disable do), and the timer of a tracked gap fires in the end
OUTimersNext ==
    \/ Add
    \/ MarkMessageExplicitly
    \/ GapTimer

GapTimerFires(key) == key \in DOMAIN orderedChains /\ GapTimerOf(key)

SpecOUTimers ==
    /\ Init
    /\ [][OUTimersNext]_vars
    /\ \A key \in Keys : WF_vars(GapTimerFires(key))

SpecPL == Init /\ [][PLNext]_vars

SpecIt == Init /\ [][ItNext]_vars

SpecGate == Init /\ [][GateNext]_vars

SpecErr == Init /\ [][ErrNext]_vars

SpecOne == Init /\ [][OneNext]_vars

SpecOnce == Init /\ [][OnceNext]_vars

SpecOrd == Init /\ [][OrdNext]_vars

SpecGateway == Init /\ [][GatewayNext]_vars

SpecPull == Init /\ [][PullNext]_vars

\* the continuations of pull are jobs: once they can run they do
SpecPullFair ==
    /\ SpecPull
    /\ WF_vars(PullResume)
    /\ WF_vars(PullClose)

(***************************************************************************)
(* Properties of the PushBuffer.                                           *)
(***************************************************************************)
\* the values the consumer was handed, in order
Yielded == SelectSeq(reads, LAMBDA v : v > 0)

\* number of push() calls whose promise is still pending
Unresolved == Cardinality({i \in DOMAIN pushRes : pushRes[i] = "wait"})

Writable == writeGate # "locked" /\ readGate # "locked"

\* C1 as stated: while the buffer is writable it never holds more than
\* bufferSize unread items, also when pushes are issued without awaiting.
C1_NeverExceedsBufferSize == Writable => Len(buffer) <= BufferSize

\* C1 amended: while the buffer is writable it holds at most bufferSize - 1
\* items plus one for every push whose result is still pending (so at most
\* bufferSize when each push is awaited before the next is issued).
C1_ExceedsOnlyByPendingPushes ==
    Writable => Len(buffer) <= BufferSize - 1 + Unresolved

C1_Witness == Writable /\ Len(buffer) = BufferSize + 1 /\ Unresolved = 2

\* only push() calls (and clear() of nothing) have happened so far
OnlyPushes == gen = "start" /\ writeGate # "locked" /\ ~hist.usedClear

ItemsRetained ==
    /\ Len(buffer) = Len(pushRes)
    /\ \A i \in DOMAIN buffer : buffer[i] \in {i, ErrItem}

\* C2 as stated: with no read performed, the first bufferSize pushes resolve
\* true and keep their items; the pushes from the (bufferSize+1)-th on wait.
C2_FirstBufferSizePushesResolve ==
    OnlyPushes =>
        /\ ItemsRetained
        /\ \A i \in DOMAIN pushRes :
              pushRes[i] = IF i <= BufferSize THEN "true" ELSE "wait"

\* C2 amended: with no read performed every pushed item is retained, the
\* first bufferSize - 1 pushes resolve true, and the bufferSize-th push (the
\* one that fills the buffer) is the first that stays pending until a read.
C2_PushThatFillsBufferWaits ==
    OnlyPushes =>
        /\ ItemsRetained
        /\ \A i \in DOMAIN pushRes :
              pushRes[i] = IF i < BufferSize THEN "true" ELSE "wait"

C2_Witness == OnlyPushes /\ Len(pushRes) = BufferSize + 1

\* C3: when end(), clear(), return() and throw() were never called and no
\* Error was pushed, what the consumer has received followed by what is
\* still buffered is exactly the appended items 1..nAcc, in push order.
C3_FifoExactlyOnce ==
    (~hist.ended /\ ~hist.usedClear /\ ~hist.usedRT /\ ~hist.pushedErr) =>
        Yielded \o buffer = [i \in 1 .. hist.nAcc |-> i]

C3_Witness ==
    /\ ~hist.ended /\ ~hist.usedClear /\ ~hist.usedRT /\ ~hist.pushedErr
    /\ Len(Yielded) >= 2
    /\ Len(buffer) >= 1

\* C4: once end(err) was called on an iteration that had not finished (and
\* return()/throw() are not used), the next read outcome is err thrown and
\* finishes the iteration; every read of a finished iteration returns done.
C4_EndErrorThrownOnce ==
    [][(hist.endErr # 0 /\ ~hist.usedRT /\ Len(reads') > Len(reads)) =>
          IF gen = "done"
          THEN Last(reads') = 0
          ELSE Last(reads') = 0 - hist.endErr /\ gen' = "done"]_vars

C4_Witness ==
    /\ hist.endErr # 0 /\ ~hist.usedRT
    /\ Len(reads) >= 4
    /\ reads[Len(reads) - 3] > 0
    /\ reads[Len(reads) - 2] = 0 - hist.endErr
    /\ reads[Len(reads) - 1] = 0
    /\ reads[Len(reads)] = 0

\* C5: after end() no read yields an item, neither one that was buffered
\* when end() was called nor one pushed later.
C5_NothingYieldedAfterEnd ==
    [][(hist.ended /\ Len(reads') > Len(reads)) => Last(reads') <= 0]_vars

C5_Witness ==
    /\ hist.ended /\ ~hist.usedRT /\ ~hist.usedClear /\ ~hist.pushedErr
    /\ gen = "done"
    /\ Len(reads) >= 2
    /\ Len(Yielded) >= 1
    /\ hist.nAcc > Len(Yielded)

\* the first outcome that is not an item: how the iteration finished
Terminal == reads[CHOOSE i \in DOMAIN reads :
                      reads[i] <= 0 /\ \A j \in 1 .. i - 1 : reads[j] > 0]

DrainsAfterEndWrite ==
    /\ hist.ew
    /\ hist.ewClean
    /\ ~hist.ended
    /\ ~hist.usedRT

\* C6: after the first endWrite(err?) on a live buffer holding k items (no
\* Error among them; no clear(), end(), return(), throw() afterwards) the
\* items not yet received stay buffered in order, the iteration finishes
\* only when all k were received in buffer order, it then throws err if one
\* was given, and every push issued after endWrite resolves false.
C6_EndWriteDrainsThenCompletes ==
    DrainsAfterEndWrite =>
        /\ gen # "done" => hist.ewLeft = buffer
        /\ gen = "done" =>
              /\ hist.ewLeft = <<>>
              /\ IF hist.ewErr # 0
                 THEN Terminal = 0 - hist.ewErr
                 ELSE Terminal <= 0
        /\ \A i \in DOMAIN pushRes : i > hist.ewPush => pushRes[i] = "false"

C6_Witness ==
    /\ DrainsAfterEndWrite
    /\ gen = "done"
    /\ hist.ewK >= 2
    /\ hist.ewErr # 0
    /\ Len(pushRes) > hist.ewPush

\* C7: a push on a buffer that is not writable resolves false at once and
\* leaves the buffer, both gates and the stored error as they were.
C7_PushWhenNotWritable ==
    [][(Len(pushRes') > Len(pushRes) /\ ~Writable) =>
          /\ Last(pushRes') = "false"
          /\ UNCHANGED <<buffer, writeGate, readGate, error>>]_vars

C7_Witness ==
    /\ hist.ew
    /\ Len(pushRes) > hist.ewPush
    /\ readGate # "locked"
    /\ buffer # <<>>

\* C8 as stated: whenever the write gate is not locked it is open iff the
\* buffered length is below bufferSize, from construction on and across
\* clear().
C8_GateOpenIffNotFull ==
    writeGate # "locked" => (writeGate = "open" <=> Len(buffer) < BufferSize)

\* C8 amended: whenever the write gate is not locked, and a push or a read
\* has re-evaluated it since construction and since the last clear() that
\* removed items, it is open iff the buffered length is below bufferSize.
C8_GateOpenIffNotFullOnceEvaluated ==
    (writeGate # "locked" /\ hist.fresh) =>
        (writeGate = "open" <=> Len(buffer) < BufferSize)

C8_Witness ==
    /\ hist.fresh
    /\ writeGate = "closed"
    /\ Len(buffer) = BufferSize
    /\ Len(Yielded) >= 1


(***************************************************************************)
(* Properties of the OrderingUtil and its chains.                          *)
(***************************************************************************)
StrictlyIncreasing(seq) ==
    \A i \in DOMAIN seq : \A j \in DOMAIN seq : i < j => seq[i] < seq[j]

\* C9: for every chain key the sequences handed to the in-order handler are
\* strictly increasing, whatever the arrival order, the duplicates and the
\* timer firings.
C9_DeliveryStrictlyIncreasing ==
    \A key \in Keys : StrictlyIncreasing(delivered[key])

C9_Witness ==
    \E key \in Keys :
        /\ key \in staleAdds
        /\ Len(delivered[key]) >= 2
        /\ gapCalls[key] # <<>>

\* C10: add(m) for a message whose sequence is already delivered on its
\* chain changes nothing: no handler call, no gapHandler call, no skip, and
\* the chains (lastDelivered, pending buffer, gap) stay as they were.
C10_StaleAddIsNoOp ==
    [][\A m \in Messages :
          (IsStaleFor(OU, m) /\ AddMessage(m)) =>
              UNCHANGED <<orderedChains, maxGapRequests, delivered, gapCalls, skips>>]_vars

C10_Witness ==
    \E key \in staleAdds :
        /\ delivered[key] # <<>>
        /\ orderedChains[key].pending # {}
        /\ orderedChains[key].gap.active
        /\ orderedChains[key].gap.attempts > 0

\* what the in-order handler of `key` is handed in this step
Appended(key) ==
    SubSeq(delivered'[key], Len(delivered[key]) + 1, Len(delivered'[key]))

KeepsLog(key) ==
    /\ Len(delivered'[key]) >= Len(delivered[key])
    /\ SubSeq(delivered'[key], 1, Len(delivered[key])) = delivered[key]

\* s is first, first + 1, ... with everything after first taken from the
\* buffered set P, and it stops only where P has no successor
ContiguousRun(s, first, P) ==
    /\ s # <<>>
    /\ s[1] = first
    /\ \A i \in 2 .. Len(s) : s[i] = s[i - 1] + 1 /\ s[i] \in P
    /\ Last(s) + 1 \notin P

\* the chain of m has delivered something and m is beyond the expected next
IsAheadFor(u, m) ==
    /\ KeyOf(m) \in DOMAIN u.orderedChains
    /\ u.orderedChains[KeyOf(m)].lastDelivered # 0
    /\ m.seq > u.orderedChains[KeyOf(m)].lastDelivered + 1

\* m is the expected next of a chain that has delivered something
IsNextFor(u, m) ==
    /\ KeyOf(m) \in DOMAIN u.orderedChains
    /\ u.orderedChains[KeyOf(m)].lastDelivered # 0
    /\ m.seq = u.orderedChains[KeyOf(m)].lastDelivered + 1

\* the gap still is the whole missing range: none of its messages arrived
GapIntact(c) ==
    /\ c.gap.active
    /\ c.pending # {}
    /\ c.gap.from = c.lastDelivered + 1
    /\ c.gap.to = Min(c.pending) - 1

\* an add of a message beyond the expected next: it is held, nothing is
\* handed to the handler, a gap is tracked and gapHandler is not called yet
AheadAddIsHeld(m) ==
    LET key == KeyOf(m)
    IN  /\ delivered'[key] = delivered[key]
        /\ gapCalls' = gapCalls
        /\ skips' = skips
        /\ m.seq \in orderedChains'[key].pending
        /\ orderedChains'[key].lastDelivered = orderedChains[key].lastDelivered
        /\ orderedChains'[key].gap.active
        /\ orderedChains[key].gap.active =>
               /\ orderedChains'[key].gap.from = orderedChains[key].gap.from
               /\ orderedChains'[key].gap.attempts = orderedChains[key].gap.attempts
               /\ orderedChains'[key].gap.to =
                      IF m.seq - 1 < orderedChains[key].gap.to
                      THEN m.seq - 1 ELSE orderedChains[key].gap.to
        /\ ~orderedChains[key].gap.active =>
               /\ GapIntact(orderedChains'[key])
               /\ orderedChains'[key].gap.attempts = 0

\* an add of the expected next: the handler is handed it and the buffered
\* messages that follow it without a hole, in sequence order; a gap that is
\* filled by this is no longer tracked; gapHandler is not called
NextAddDrains(m) ==
    LET key == KeyOf(m)
        c == orderedChains[key]
        c1 == orderedChains'[key]
    IN  /\ KeepsLog(key)
        /\ ContiguousRun(Appended(key), m.seq, c.pending)
        /\ c1.lastDelivered = Last(delivered'[key])
        /\ c1.pending = {x \in c.pending : x > c1.lastDelivered}
        /\ gapCalls' = gapCalls
        /\ skips' = skips
        /\ (c.gap.active /\ c1.lastDelivered >= c.gap.to) =>
               (c1.gap.active => c1.gap.from > c.gap.to)

\* a call of gapHandler: one call, for the range of the tracked gap, which
\* is not filled yet; for a gap none of whose messages arrived this is
\* exactly the missing range
GapHandlerCall(key) ==
    LET c == orderedChains[key]
    IN  /\ c.gap.active
        /\ gapCalls'[key] = Append(gapCalls[key], <<c.gap.from, c.gap.to>>)
        /\ c.gap.to > c.lastDelivered
        /\ GapIntact(c) =>
               Last(gapCalls'[key]) = <<c.lastDelivered + 1, Min(c.pending) - 1>>
        /\ delivered' = delivered

SkipPastGap(key) ==
    LET c == orderedChains[key]
        c1 == orderedChains'[key]
    IN  /\ c.gap.active
        /\ c.gap.attempts = maxGapRequests
        /\ skips'[key] = skips[key] + 1
        /\ gapCalls' = gapCalls
        /\ c1.lastDelivered >= c.gap.to
        /\ KeepsLog(key)
        /\ IF c.gap.to + 1 \in c.pending
           THEN /\ ContiguousRun(Appended(key), c.gap.to + 1, c.pending)
                /\ c1.lastDelivered = Last(delivered'[key])
           ELSE /\ Appended(key) = <<>>
                /\ c1.lastDelivered = c.gap.to
        /\ c1.pending = {x \in c.pending : x > c1.lastDelivered}
        /\ c1.gap.active => c1.gap.from > c.gap.to

CountedGapRequest(key) ==
    LET c == orderedChains[key]
        c1 == orderedChains'[key]
    IN  /\ key \in DOMAIN orderedChains
        /\ GapTimerOf(key)
        /\ c.gap.active
        /\ c.gap.attempts < maxGapRequests
        /\ Len(gapCalls'[key]) = Len(gapCalls[key]) + 1
        /\ c1.gap = [c.gap EXCEPT !.attempts = @ + 1]

\* C13: gapHandler is called only when the timer of a tracked gap expires,
\* only while the gap has had fewer than maxGapRequests attempts, and each
\* call adds exactly one to the gap's attempts; the attempts of a gap change
\* in no other way and never exceed maxGapRequests; with maxGapRequests = 0
\* gapHandler is not called.
C13_GapRequestsBounded ==
    [][/\ \A key \in Keys :
              gapCalls'[key] # gapCalls[key] => CountedGapRequest(key)
       /\ \A key \in DOMAIN orderedChains :
              /\ orderedChains[key].gap.attempts <= maxGapRequests
              /\ (/\ key \in DOMAIN orderedChains'
                  /\ orderedChains[key].gap.active
                  /\ orderedChains'[key].gap.active
                  /\ orderedChains'[key].gap.from = orderedChains[key].gap.from
                  /\ orderedChains'[key].gap.attempts # orderedChains[key].gap.attempts)
                 => gapCalls'[key] # gapCalls[key]
       /\ maxGapRequests = 0 => gapCalls' = gapCalls]_vars

\* every attempt of a gap was made, then the util was disabled and the gap
\* was detected again
C13_Witness ==
    /\ maxGapRequests = 0
    /\ "ax" \in DOMAIN orderedChains
    /\ orderedChains["ax"].gap.active
    /\ Len(gapCalls["ax"]) = MaxGapRequests

(***************************************************************************)
(* Properties of the Pipeline.                                             *)
(***************************************************************************)
\* iteration has started: the body of iterate() began to run (a pipeline
\* that was returned before its first next() never starts)
Started == signals.onStart.triggerCount > 0

StageLists == <<pipeline.transforms, pipeline.transformsBefore>>

\* C24: an exception thrown by inOrderHandler or gapHandler becomes an
\* 'error' event of the OrderingUtil, one event per exception and in the
\* order thrown, and does not end the add() or the timer callback it was
\* thrown in: whether or not handlers throw, a message ahead of the expected
\* next is held, the expected next is handed over followed by the buffered
\* messages contiguous with it, and the timer of a gap calls gapHandler for
\* the gap, on the chain of every key.
C24_HandlerExceptionsBecomeErrorEvents ==
    [][/\ errorEvents' = handlerThrows'
       /\ \A m \in Messages :
              AddThrowing(m) =>
                  /\ IsAheadFor(OU, m) => AheadAddIsHeld(m)
                  /\ IsNextFor(OU, m) => NextAddDrains(m)
       /\ \A key \in Keys :
              gapCalls'[key] # gapCalls[key] => GapHandlerCall(key)]_vars

\* arrivals 1, 3 on chain "ax"; gapHandler threw on the request for [2, 2];
\* then 2 arrived, inOrderHandler threw on it, and 3 was handed over in the
\* same add(); the chain "bx" has delivered since
C24_Witness ==
    /\ handlerThrows = <<[key |-> "ax", handler |-> "gapHandler", arg |-> 2],
                         [key |-> "ax", handler |-> "inOrderHandler", arg |-> 2]>>
    /\ errorEvents = handlerThrows
    /\ delivered["ax"] = <<1, 2, 3>>
    /\ delivered["bx"] # <<>>

\* the OrderingUtil is disabled: no resend attempt is left to it or to any of
\* its chains
Disabled ==
    /\ maxGapRequests = 0
    /\ \A key \in DOMAIN orderedChains : orderedChains[key].maxGapRequests = 0

\* C25: disable() leaves the OrderingUtil disabled with no gap timer pending
\* on any chain; from then on it stays disabled, also for the chains created
\* afterwards, and gapHandler is not invoked again on any chain.
C25_NoGapHandlerAfterDisable ==
    [][/\ Disable =>
            /\ Disabled'
            /\ \A key \in DOMAIN orderedChains' : ~orderedChains'[key].gap.active
       /\ Disabled => Disabled' /\ gapCalls' = gapCalls]_vars

\* after disable() a gap was detected on chain "ax" and its timer expired:
\* the gap was skipped without a call of gapHandler; chain "bx" exists too
C25_Witness ==
    /\ Disabled
    /\ DOMAIN orderedChains = Keys
    /\ skips["ax"] = 1
    /\ gapCalls["ax"] = <<>>
    /\ delivered["ax"] = <<1, 3>>

\* C26: after any sequence of add, markMessageExplicitly, clearGaps, disable
\* and timer expiries, isEmpty() is true exactly when every chain created so
\* far holds no pending message and tracks no gap; with no chain created it
\* is true.
C26_IsEmptyIffNoPendingAndNoGap ==
    /\ isEmpty(OU) <=>
          \A key \in Keys :
              key \in DOMAIN orderedChains =>
                  /\ orderedChains[key].pending = {}
                  /\ ~orderedChains[key].gap.active
    /\ orderedChains = <<>> => isEmpty(OU)

\* both chains exist; "bx" is empty, "ax" still holds message 3 although its
\* gap is no longer tracked (clearGaps() or disable()): isEmpty() is false
C26_Witness ==
    /\ DOMAIN orderedChains = Keys
    /\ ChainIsEmpty(orderedChains["bx"])
    /\ orderedChains["ax"].pending = {3}
    /\ ~orderedChains["ax"].gap.active
    /\ ~isEmpty(OU)

\* C14: a pipe() or pipeBefore() call made after iteration started throws
\* and leaves both stage lists as they were; a call made before iteration
\* started does not throw and adds its transform at the end of its list.
C14_PipeFailsOnceIterating ==
    [][pipeLog' # pipeLog =>
          LET call == Last(pipeLog')
          IN  IF Started
              THEN call.threw /\ StageLists' = StageLists
              ELSE /\ ~call.threw
                   /\ StageLists' =
                        IF call.op = "pipe"
                        THEN <<Append(pipeline.transforms, call.fn),
                               pipeline.transformsBefore>>
                        ELSE <<pipeline.transforms,
                               Append(pipeline.transformsBefore, call.fn)>>]_vars

\* pipe() before the first next(), pipeBefore() refused while iterating
C14_Witness ==
    /\ Len(pipeLog) = 2
    /\ pipeLog[1].op = "pipe" /\ ~pipeLog[1].threw
    /\ pipeLog[2].op = "pipeBefore" /\ pipeLog[2].threw
    /\ pipeline.transforms = <<pipeLog[1].fn>>
    /\ pipeline.transformsBefore = <<>>
    /\ Started

\* the transforms of the calls of `op` that did not throw, in call order
Accepted(op) ==
    LET calls == SelectSeq(pipeLog, LAMBDA c : c.op = op /\ ~c.threw)
    IN  [i \in DOMAIN calls |-> calls[i].fn]

\* the numbers of the stages of a chain, in order
StageNumbers(chain) == [i \in DOMAIN chain |-> chain[i].n]

\* C15: the chain folded over the source at iteration is the pipeBefore
\* transforms in call order followed by the pipe transforms in call order,
\* and every element handed to the consumer went through exactly these
\* stages in this order.
C15_BeforeStagesThenStages ==
    (Started /\ iterator.pc # "onStart") =>
        /\ iterator.chain = Accepted("pipeBefore") \o Accepted("pipe")
        /\ \A i \in DOMAIN results :
               results[i].kind = "value" =>
                   results[i].el.trace = StageNumbers(iterator.chain)

\* pipe() was called first, pipeBefore() second: the element went through
\* stage 2, then stage 1
C15_Witness ==
    /\ Len(pipeLog) >= 2
    /\ pipeLog[1].op = "pipe"
    /\ pipeLog[2].op = "pipeBefore"
    /\ \E i \in DOMAIN results :
           results[i].kind = "value" /\ results[i].el.trace = <<2, 1>>

\* the Pipeline has terminated: its iterator is finished and no call of the
\* consumer is waiting for its result
Terminated ==
    /\ iterator.pc = "done"
    /\ nextCall = "idle"
    /\ returnCall.pc \in {"idle", "done"}
    /\ throwCall.pc \in {"idle", "done"}

\* C16: the listeners of onFinally are never called twice, and when the
\* Pipeline has terminated, however it did (completion, return(), throw(),
\* an error of the source or of a stage, several of these at once), they
\* were called exactly once and the cleanup call is settled.
C16_OnFinallyExactlyOnce ==
    /\ Len(signals.onFinally.fired) <= 1
    /\ Terminated =>
           /\ Len(signals.onFinally.fired) = 1
           /\ cleanupCall.status \in {"fulfilled", "rejected"}

\* return() was on its way (it had called source.return()) when the source
\* threw; both ended and onFinally fired
C16_Witness ==
    /\ Terminated
    /\ Len(signals.onFinally.fired) = 1
    /\ signals.onError # <<>>
    /\ signals.onError[1] = SourceError
    /\ returnCall.pc = "done"
    /\ source.returnCalls = 2

\* C17: the listeners of onBeforeFinally are called at most once although
\* the finally block of iterate(), return(), throw() and cleanup() all
\* trigger it; the path that starts the teardown fires it, so it has fired
\* when cleanup starts and therefore before onFinally fires; when the
\* Pipeline has terminated it has fired exactly once.
C17_OnBeforeFinallyOnceAndFirst ==
    /\ Len(signals.onBeforeFinally.fired) <= 1
    /\ cleanupCall.status # "init" => Len(signals.onBeforeFinally.fired) = 1
    /\ signals.onFinally.fired # <<>> => Len(signals.onBeforeFinally.fired) = 1
    /\ Terminated => Len(signals.onBeforeFinally.fired) = 1

\* triggered by return(), by the finally block or throw(), and by cleanup
C17_Witness ==
    /\ Terminated
    /\ signals.onBeforeFinally.triggerCount >= 2
    /\ Len(signals.onBeforeFinally.fired) = 1
    /\ Len(signals.onFinally.fired) = 1
    /\ returnCall.pc = "done"
    /\ throwCall.pc = "done"

\* the elements the last stage produces out of the first n of the source
RECURSIVE Produced(_, _)
Produced(chain, n) ==
    IF n = 0
    THEN <<>>
    ELSE LET r == ApplyChain(chain, [v |-> n, trace |-> <<>>])
         IN  IF r.kind = "elem"
             THEN Append(Produced(chain, n - 1), r.el)
             ELSE Produced(chain, n - 1)

\* the elements handed to the consumer, in order
YieldedElements ==
    LET vs == SelectSeq(results, LAMBDA r : r.kind = "value")
    IN  [i \in DOMAIN vs |-> vs[i].el]

IsPrefixOf(s, t) == Len(s) <= Len(t) /\ SubSeq(t, 1, Len(s)) = s

\* C18: onMessage was triggered with exactly the elements the last stage
\* produced so far, once each and in their order (an element a stage removed
\* is not among them); the consumer was handed a prefix of them, so each
\* element triggers onMessage before it is yielded, and at most the last
\* one triggered is not yielded yet.
C18_OnMessageOncePerElementBeforeYield ==
    /\ signals.onMessage = Produced(iterator.chain, source.sent)
    /\ IsPrefixOf(YieldedElements, signals.onMessage)
    /\ Len(signals.onMessage) <= Len(YieldedElements) + 1
    /\ iterator.pc = "yield" => YieldedElements = signals.onMessage

\* a stage removed element 1; element 2 triggered onMessage and was yielded
C18_Witness ==
    /\ \E i \in DOMAIN iterator.chain : iterator.chain[i].kind = "drop"
    /\ source.sent = 2
    /\ Len(signals.onMessage) = 1
    /\ signals.onMessage[1].v = 2
    /\ YieldedElements = signals.onMessage

\* C19: when onFinally fires, and so when the Pipeline has terminated,
\* whatever ended it, source.return() has been called.
C19_SourceReturnedBeforeOnFinally ==
    /\ signals.onFinally.fired # <<>> => source.returnCalls >= 1
    /\ Terminated => source.returnCalls >= 1

\* the source threw, onError rethrew, return() was never called: only
\* cleanup called source.return()
C19_Witness ==
    /\ Terminated
    /\ returnCall.pc = "idle"
    /\ throwCall.pc = "idle"
    /\ signals.onFinally.fired = <<SourceError>>
    /\ source.returnCalls = 1

\* the next() calls of the consumer that were rejected
RejectedNexts == {i \in DOMAIN results : results[i].kind = "error"}

\* the source or a stage threw during iteration
UpstreamFailed == iterator.err \in {SourceError, StageError}

\* what follows an upstream error e in every case: onError was triggered
\* with e, the iterator is in its teardown or finished (it asks for and
\* yields no further element), and no next() was rejected with anything else
UpstreamErrorEndsPipeline ==
    /\ \E i \in DOMAIN signals.onError : signals.onError[i] = iterator.err
    /\ iterator.pc \in {"handleError", "beforeFinally", "cleanup", "done"}
    /\ \A i \in RejectedNexts : results[i].err = iterator.err

\* C20 as stated: after an error e of the source or of a stage, onError is
\* triggered with e, no further element is yielded, and once the Pipeline
\* has terminated the consumer's next() calls were rejected exactly once.
C20_TerminalExceptionExactlyOnce ==
    UpstreamFailed =>
        /\ UpstreamErrorEndsPipeline
        /\ Cardinality(RejectedNexts) <= 1
        /\ Terminated => Cardinality(RejectedNexts) = 1

\* C20 amended: after an error e of the source or of a stage, onError is
\* triggered with e, no further element is yielded, and the consumer's
\* next() calls are rejected at most once, with e: exactly once when the
\* trigger of onError rethrows e, and not at all when it returns (the
\* iteration then ends like a completed one).
C20_TerminalExceptionAtMostOnce ==
    UpstreamFailed =>
        /\ UpstreamErrorEndsPipeline
        /\ Cardinality(RejectedNexts) <= 1
        /\ Terminated =>
               (Cardinality(RejectedNexts) = 1 <=> iterator.ending = "throw")

\* an element was yielded, the source threw, onError rethrew: the next()
\* was rejected, the one after it completed
C20_Witness ==
    /\ Terminated
    /\ iterator.err = SourceError
    /\ iterator.ending = "throw"
    /\ Len(results) = 3
    /\ results[1].kind = "value"
    /\ results[2] = Rejected(SourceError)
    /\ results[3] = Done

(***************************************************************************)
(* Properties of the consumers of a PushBuffer or a Pipeline.              *)
(***************************************************************************)
\* C21: once a PushBuffer or a Pipeline is being iterated, a further attempt
\* to start iterating it (for await, collect()) throws and changes nothing
\* of the object, so the iteration in progress goes on undisturbed; at no
\* time have two consumers both been handed items.
C21_SecondConsumerRefused ==
    [][/\ Len(attempts') > Len(attempts) =>
            LET a == Last(attempts')
            IN  /\ a.on = "buffer" /\ isIterating =>
                      a.threw /\ UNCHANGED pbVars
                /\ a.on = "pipeline" /\ pipeline.isIterating =>
                      a.threw /\ UNCHANGED plVars
       /\ Cardinality(receivers') <= 1]_vars

\* a consumer of the PushBuffer has been handed an item, a later for await
\* and a later collect() were refused, and the consumer was handed two items
C21_Witness ==
    /\ Len(attempts) = 3
    /\ ~attempts[1].threw
    /\ attempts[2].threw /\ attempts[3].threw
    /\ {attempts[2].how, attempts[3].how} = {"forAwait", "collect"}
    /\ receivers = {1}
    /\ Len(Yielded) >= 2

(***************************************************************************)
(* Properties of the Gate.                                                 *)
(***************************************************************************)
\* C23: in a PushBuffer, whatever the producer and the consumer do and in
\* whatever order, every suspended check() is resolved exactly once: no
\* check() stays suspended on a gate that is open or locked (no lost wakeup),
\* a check() is resolved by the very step that opens or locks its gate, and a
\* resolved check() never takes another value (no double resolution).
C23_WaitersResolvedExactlyOnce ==
    [][/\ \A i \in DOMAIN pushRes :
            /\ pushRes[i] = "wait" => writeGate = "closed"
            /\ pushRes[i] = "wait" /\ writeGate' # "closed" =>
                   /\ pushRes'[i] # "wait"
                   /\ writeGate' = "open" => pushRes'[i] = "true"
            /\ pushRes[i] # "wait" => pushRes'[i] = pushRes[i]
       /\ readWaiter = "wait" => readGate = "closed"
       /\ readWaiter = "wait" /\ readGate' # "closed" /\ gen' = "await" =>
              /\ readWaiter' # "wait"
              /\ readGate' = "open" => readWaiter' = "true"
       /\ readWaiter = "true" => readWaiter' # "false"
       /\ readWaiter = "false" => readWaiter' # "true"]_vars

\* every push so far was accepted; one of them was suspended and resolved
\* false by a lock, another resolved true, and the consumer's suspended
\* check() has been resolved and not yet continued
C23_Witness ==
    /\ Len(pushRes) = hist.nAcc
    /\ \E i, j \in DOMAIN pushRes : pushRes[i] = "false" /\ pushRes[j] = "true"
    /\ gen = "await"
    /\ readWaiter \in {"true", "false"}

\* the attempts to start iterating made by callbacks of flow()
FlowAttempts == {i \in DOMAIN attempts : attempts[i].how = "flow"}

\* the attempts made by explicit consumers of the Pipeline
ExplicitAttempts ==
    {i \in DOMAIN attempts :
        attempts[i].on = "pipeline" /\ attempts[i].how # "flow"}

\* C27: the callback of flow() starts consuming if nobody is iterating when
\* it runs and does nothing otherwise.  However many times flow() is called,
\* no callback raises 'already iterating'; and with at most one explicit
\* consumer, which began iterating before the callbacks that found nobody
\* iterating, nobody is refused and the Pipeline has at most one consumer.
C27_FlowStartsAtMostOneConsumer ==
    [][/\ flow'.ran > flow.ran =>
            IF pipeline.isIterating
            THEN UNCHANGED <<plVars, attempts>>
            ELSE /\ Len(attempts') = Len(attempts) + 1
                 /\ Last(attempts') =
                        [on |-> "pipeline", how |-> "flow", threw |-> FALSE]
                 /\ pipeline'.isIterating
       /\ \A i \in FlowAttempts : ~attempts[i].threw
       /\ (/\ Cardinality(ExplicitAttempts) <= 1
           /\ \A i \in ExplicitAttempts, j \in FlowAttempts : i < j) =>
               /\ \A i \in ExplicitAttempts : ~attempts[i].threw
               /\ Cardinality(PipelineConsumers) <= 1]_vars

\* flow() was called twice, an explicit consumer began iterating before the
\* callbacks ran, both callbacks ran and started nothing, and the consumer
\* has been handed an element
C27_Witness ==
    /\ flow = [pending |-> 0, ran |-> 2]
    /\ attempts = <<[on |-> "pipeline", how |-> "forAwait", threw |-> FALSE]>>
    /\ receivers = {1}

\* C22: check() resolves true at once on an open gate, is suspended on a
\* closed gate until the gate opens (true) or is locked (false), and
\* resolves false at once on a locked gate; a locked gate stays locked
\* whatever is called on it.
C22_CheckFollowsGateAndLockIsPermanent ==
    [][/\ gate = "locked" => gate' = "locked"
       /\ Len(checks') > Len(checks) =>
            Last(checks').res = (CASE gate = "open" -> "true"
                                   [] gate = "closed" -> "wait"
                                   [] OTHER -> "false")
       /\ \A i \in DOMAIN checks :
            /\ checks[i].res = "wait" =>
                 checks'[i].res = (CASE gate' = "open" -> "true"
                                     [] gate' = "closed" -> "wait"
                                     [] OTHER -> "false")
            /\ checks[i].res # "wait" => checks'[i] = checks[i]]_vars

\* a check() suspended on the closed gate was resolved true by open(), one
\* was resolved false by lock(), and two made on the locked gate got false
\* at once
C22_Witness ==
    /\ gate = "locked"
    /\ Len(checks) = 4
    /\ checks[1] = [at |-> "closed", res |-> "true"]
    /\ checks[2] = [at |-> "closed", res |-> "false"]
    /\ checks[3] = [at |-> "locked", res |-> "false"]
    /\ checks[4] = [at |-> "locked", res |-> "false"]

(***************************************************************************)
(* Properties of the promise utilities.                                    *)
(***************************************************************************)
\* C28: of a function wrapped by pOne at most one invocation is outstanding
\* at any time, and a call made while an invocation is outstanding does not
\* invoke the function: it is given the promise of that invocation.
C28_AtMostOneExecutionOutstanding ==
    /\ Cardinality(Outstanding(ONE)) <= 1
    /\ \A k \in DOMAIN wrapperCalls :
           wrapperCalls[k].outstanding # {} =>
               /\ ~wrapperCalls[k].started
               /\ wrapperCalls[k].thisCall \in wrapperCalls[k].outstanding

\* C29: the promises returned by the calls of a function wrapped by
\* pOrderedResolve settle in the order in which the calls were made: a call
\* made later never settles before a call made earlier
C29_SettleInCallOrder ==
    \A i, j \in DOMAIN settledOrder :
        i < j => settledOrder[i] < settledOrder[j]

(***************************************************************************)
(* Properties of the event gateway                                         *)
(***************************************************************************)
\* C30: once the gateway is installed, after every call of on, once, off,
\* removeAllListeners or emit the producer is running if and only if the
\* event of the gateway has at least one listener, and the calls of start()
\* and stop() have alternated
C30_ProducerRunsIffListeners ==
    gateway.installed =>
        /\ producer = "running" <=> getListenerCount(EM, eventName) > 0
        /\ gateway.alternate

(***************************************************************************)
(* Properties of the PushBuffer: release of suspended callers.             *)
(***************************************************************************)
\* C31: a call of end(), endWrite(), return() or throw() resolves every
\* push that is suspended on the full buffer with false, and leaves no push
\* suspended
C31_EndReleasesSuspendedPushes ==
    [][\/ /\ \A i \in DOMAIN pushRes :
                  pushRes[i] = "wait" => pushRes'[i] = "false"
          /\ \A i \in DOMAIN pushRes' : pushRes'[i] # "wait"
       \/ ~(End \/ EndWrite \/ Return \/ Throw)]_vars

\* return() or throw() was called, and a push that had put its item into the
\* buffer (the accepted pushes are the first hist.nAcc ones) resolved false:
\* it was suspended and has been released
C31_Witness ==
    /\ hist.usedRT
    /\ ~hist.ended
    /\ \E i \in 1 .. hist.nAcc : pushRes[i] = "false"

\* the consumer is suspended on the read gate of the empty buffer
ConsumerSuspended == gen = "await" /\ readWaiter = "wait"

\* C32: a consumer suspended on the empty buffer is released by end(err) and
\* by endWrite(err), which store the error given, and by every accepted push
\* (its check() resolves true); a consumer that continues on a buffer that
\* was ended, or whose write side was ended with nothing left to read,
\* terminates: it throws the stored error, if any, and completes otherwise
C32_EndReleasesSuspendedConsumer ==
    [][/\ \/ ~ConsumerSuspended
          \/ ~(End \/ EndWrite)
          \/ /\ readWaiter' \in {"true", "false"}
             /\ \A err \in Errors \cup {0} :
                    PB' = end(PB, err) \/ PB' = endWrite(PB, err) => error' = err
       /\ \/ ~ConsumerSuspended
          \/ ~(Push /\ isWritable(PB))
          \/ readWaiter' = "true"
       /\ \/ ~(gen = "await" /\ readWaiter # "wait")
          \/ ~(readGate = "locked" \/ (writeGate = "locked" /\ buffer = <<>>))
          \/ ~ReadResume
          \/ /\ gen' = "done"
             /\ Len(reads') = Len(reads) + 1
             /\ Last(reads') = IF error # 0 THEN 0 - error ELSE 0]_vars

\* the consumer is still in its await: end(err) with an error has resolved
\* its check() false, and it has not continued yet
C32_Witness ==
    /\ gen = "await"
    /\ readWaiter = "false"
    /\ hist.ended
    /\ error # 0

\* the values the consumer has been given so far
YieldedValues == {reads[j] : j \in {k \in DOMAIN reads : reads[k] > 0}}

\* C33: push resolves true if and only if its item was accepted for
\* delivery: a push that resolved true has put its item into the buffer,
\* and the item of a push that resolved false is never given to the
\* consumer.  (The accepted pushes are the first hist.nAcc ones; the i-th
\* of them pushed the value i or an Error.)
C33_PushTrueIffAccepted ==
    \A i \in DOMAIN pushRes :
        /\ pushRes[i] = "true" => i <= hist.nAcc
        /\ pushRes[i] = "false" => i \notin YieldedValues

\* C34: with a producer that awaits the result of each push() before it
\* issues the next one, the buffer never holds more than bufferSize items,
\* whatever the consumer does in between
C34_AwaitedPushesStayWithinBufferSize == Len(buffer) <= BufferSize

\* the buffer is full again after the consumer has taken items, and the
\* producer is suspended in its latest push
C34_Witness ==
    /\ Len(buffer) = BufferSize
    /\ Len(pushRes) > BufferSize
    /\ pushRes[Len(pushRes)] = "wait"
    /\ YieldedValues # {}

\* C35: once the consumer side has terminated (the generator of iterate()
\* is finished: it drained the buffer after endWrite(), threw an error, was
\* ended by end(), or was finished by return() or throw(), before the first
\* read included), isDone() is true and the buffer is empty
C35_TerminatedIsDoneAndEmpty ==
    gen = "done" => isDone(PB) /\ Len(buffer) = 0

(***************************************************************************)
(* Properties of pull.                                                     *)
(***************************************************************************)
\* the first n positive integers, in order
UpTo(n) == [i \in 1 .. n |-> i]

\* C36: when the source of pull throws an error e, and the buffer is not
\* ended, returned or cleared by someone else, a consumer that has finished
\* has been given the items pulled before the failure, in order, and then
\* the error e; this holds for pull(src, dest) and for dest.pull(src)
C36_SourceErrorReachesConsumer ==
    ( /\ pullSource.state = "threw"
      /\ gen = "done"
      /\ ~hist.ended /\ ~hist.usedRT /\ ~hist.usedClear )
    => /\ Len(reads) > hist.nAcc
       /\ SubSeq(reads, 1, hist.nAcc + 1) =
              UpTo(hist.nAcc) \o <<0 - pullSource.error>>

\* the latest push of pull has resolved false: the buffer had stopped
\* accepting items, or was ended while the push was suspended
PullRefused ==
    /\ puller.pc = "pushed"
    /\ pushRes[puller.push] = "false"

\* pull has left its loop by break, called return() of the source and ended
\* the write side of the buffer
PullStopped ==
    /\ puller.pc = "finished"
    /\ puller.broke
    /\ pullSource.state = "returned"
    /\ pullSource.returnCalls = 1
    /\ writeGate = "locked"

\* C37: pull stops when its destination stops accepting items: nothing is
\* appended to a buffer that is not writable; a pull whose push resolved
\* false (the buffer ended before the push, or while the push was
\* suspended) asks the source for nothing more, calls return() of the
\* source once and ends the write side of the buffer
C37_PullStopsWhenDestinationEnds ==
    /\ [][~isWritable(PB) => Len(buffer') <= Len(buffer)]_vars
    /\ [][PullRefused => pullSource'.sent = pullSource.sent]_vars
    /\ [](puller.broke => pullSource.state = "returned" /\ pullSource.returnCalls = 1)
    /\ [](puller.pc = "finished" => writeGate = "locked")
    /\ (PullRefused ~> PullStopped)

\* the buffer was ended while pull was suspended inside a push that had put
\* its item into the full buffer; pull has closed the source and finished
C37_Witness ==
    /\ PullStopped
    /\ hist.ended
    /\ puller.push <= hist.nAcc
    /\ pushRes[puller.push] = "false"
    /\ Len(buffer) = BufferSize

(***************************************************************************)
(* Properties of the OrderingUtil: one chain per key.                      *)
(***************************************************************************)
\* C38: the messages of one (publisherId, msgChainId) have one key and the
\* messages of different ones have different keys; add(m) and
\* markMessageExplicitly(m) create the chain of m's key if there is none
\* yet and no other chain, hand m to the chain the key already has (it is
\* not created again), and leave every other chain (lastDelivered, pending
\* buffer, gap) and what its handlers were called with unchanged
C38_OneChainPerKey ==
    [][\A m \in Messages :
         LET key == KeyOf(m)
             others == Keys \ {key}
         IN  (AddMessage(m) \/ (MarkMessageExplicitly /\ OU' = markMessageExplicitly(OU, m)))
             => /\ \A n \in Messages :
                       KeyOf(n) = key <=>
                           n.publisherId = m.publisherId /\ n.msgChainId = m.msgChainId
                /\ DOMAIN orderedChains' = DOMAIN orderedChains \cup {key}
                /\ \A k \in others \cap DOMAIN orderedChains :
                       orderedChains'[k] = orderedChains[k]
                /\ \A k \in others :
                       /\ delivered'[k] = delivered[k]
                       /\ gapCalls'[k] = gapCalls[k]
                       /\ skips'[k] = skips[k]
                /\ key \in DOMAIN orderedChains =>
                       orderedChains'[key] \in
                           {ChainAdd(World(OU, key), m.seq).chain,
                            ChainMarkMessageExplicitly(World(OU, key), m.seq).chain}]_vars

\* both keys have a chain, each with a state of its own: one has delivered
\* messages and holds one behind a gap, the other has delivered its first
C38_Witness ==
    /\ DOMAIN orderedChains = Keys
    /\ orderedChains[ChainKey("a", "x")].lastDelivered >= 1
    /\ orderedChains[ChainKey("a", "x")].pending # {}
    /\ orderedChains[ChainKey("a", "x")].gap.active
    /\ orderedChains[ChainKey("b", "x")].lastDelivered = 1
    /\ orderedChains[ChainKey("b", "x")].pending = {}

\* sequence q is held in the pending buffer of the chain of key
Buffered(key, q) ==
    key \in DOMAIN orderedChains /\ q \in orderedChains[key].pending

\* the in-order handler of the chain of key was called with sequence q
Delivered(key, q) == \E i \in DOMAIN delivered[key] : delivered[key][i] = q

\* C39: with the gap timers firing and never cancelled, a message held in
\* the pending buffer of a chain is handed to the in-order handler in the
\* end: a message leaves the pending buffer only by being handed to the
\* handler, and the pending buffer of every chain is emptied again and
\* again, because the gap before its first message is filled by the missing
\* messages or skipped after maxGapRequests resend attempts
C39_BufferedIsEventuallyDelivered ==
    /\ [][\A key \in Keys : \A q \in Seqs :
             Buffered(key, q) /\ ~Buffered(key, q)' => Delivered(key, q)']_vars
    /\ \A key \in Keys :
           []<>(key \in DOMAIN orderedChains => orderedChains[key].pending = {})

\* message 3 was held behind the gap [2, 2]; the gap had its resend attempt,
\* was skipped, and 3 was delivered
C39_Witness ==
    /\ delivered[ChainKey("a", "x")] = <<1, 3>>
    /\ Len(gapCalls[ChainKey("a", "x")]) = maxGapRequests
    /\ skips[ChainKey("a", "x")] = 1
    /\ orderedChains[ChainKey("a", "x")].pending = {}

(***************************************************************************)
(* Properties of pOnce.                                                    *)
(***************************************************************************)
\* the calls of the wrapper made on the CallStatus object c, that is, with
\* no reset() between them
CallsOn(c) == {k \in DOMAIN wrapperCalls : wrapperCalls[k].thisCall = c}

\* the calls of the wrapper that invoked fn
Invoking == {k \in DOMAIN wrapperCalls : wrapperCalls[k].started}

\* C40: between two calls of reset() fn is invoked at most once, by the
\* first call of the wrapper; the calls made while it is executing and the
\* calls made after it settled do not invoke it, and the promises of all
\* these calls settle as the promise of that one invocation did: with its
\* value, or rejected with its reason
C40_InvokedOncePerReset ==
    /\ \A c \in DOMAIN callStatus :
           /\ Cardinality(CallsOn(c) \cap Invoking) <= 1
           /\ \A k \in CallsOn(c) :
                  k \in Invoking <=> \A j \in CallsOn(c) : k <= j
    /\ \A k \in DOMAIN received :
           /\ received[k].by \in CallsOn(wrapperCalls[k].thisCall) \cap Invoking
           /\ \A j \in DOMAIN received :
                  wrapperCalls[j].thisCall = wrapperCalls[k].thisCall
                      => received[j] = received[k]

\* fn was invoked by call 1 and its promise rejected later; call 2 was made
\* while it was executing, call 3 after it had settled, and all three got
\* the rejection of that invocation; after reset() call 4 invoked fn again
C40_Witness ==
    /\ Len(wrapperCalls) = 4
    /\ CallsOn(1) = {1, 2, 3}
    /\ Invoking = {1, 4}
    /\ wrapperCalls[2].outstanding = {1}
    /\ wrapperCalls[3].outstanding = {}
    /\ callStatus[1].status = "rejected"
    /\ \A k \in {1, 2, 3} :
           k \in DOMAIN received /\ received[k] = [status |-> "rejected", by |-> 1]
    /\ 4 \in DOMAIN received /\ received[4] = [status |-> "fulfilled", by |-> 4]

=============================================================================
